---- MODULE Spec2Model ----
(***************************************************************************)
(* Particle swarm memory pool and boundary transport of parthenon:         *)
(*   src/src/interface/swarm.cpp   (Swarm)                                 *)
(*   src/src/bvals/bvals_swarm.cpp (BoundarySwarm)                         *)
(*                                                                         *)
(* A swarm is a record; every method of Swarm / BoundarySwarm is an        *)
(* operator from records to records, translated statement by statement.    *)
(* Arrays are functions over 0 .. n-1, std::list is a sequence.            *)
(* Real values are fixed-point integers: the Real r is the integer         *)
(* r * RealScale, so that 9.99 is 999 and the int 3 widened to Real is 300.*)
(***************************************************************************)
EXTENDS Integers, Sequences, FiniteSets, Bags, TLC

\* swarm: block gid -> its Swarm             last: the call just made
\* mesh:  the blocks' neighbours and the domain   net:  MPI messages in flight
\* task:  each block's place in its exchange cycle
\* sent:  for each channel, the particles its pending payload was packed from
VARIABLES swarm, last, mesh, net, task, sent

vars == <<swarm, last, mesh, net, task, sent>>

(***************************************************************************)
(* Bounds of the model                                                     *)
(***************************************************************************)
\* largest pool capacity nmax_pool_ the model lets a pool grow to
MaxPool == 4
\* largest nmax_pool_in handed to the constructor by the pool specification
InitPoolMax == 2
\* largest number of particles alive in the transport specification
MaxParticles == 1
\* number of exchange cycles each block runs in the transport specification
MaxCycles == 2
\* largest num_to_add handed to AddEmptyParticles by the pool specification
MaxAdd == 2
MaxLoad == 2

(***************************************************************************)
(* Program constants                                                       *)
(***************************************************************************)
\* blockIndex_ value of a particle that stays on its block (negative: line 692)
this_block_ == -1
\* from_to_indices value of a slot Defrag does not move (negative: line 365)
unset_index_ == -1
\* fixed-point scale of a Real
RealScale == 100

Min(a, b) == IF a < b THEN a ELSE b
Max(a, b) == IF a > b THEN a ELSE b

\* an array of n elements, all v
Arr(n, v) == [i \in 0 .. n - 1 |-> v]

\* Kokkos::resize: the old contents are kept, new elements are value-initialised
Resize(a, n, v) == [i \in 0 .. n - 1 |-> IF i \in DOMAIN a THEN a[i] ELSE v]

\* std::list::sort
RECURSIVE InsertSorted(_, _)
InsertSorted(sq, v) ==
  IF sq = <<>> THEN <<v>>
  ELSE IF v <= Head(sq) THEN <<v>> \o sq
  ELSE <<Head(sq)>> \o InsertSorted(Tail(sq), v)

RECURSIVE SortList(_)
SortList(sq) == IF sq = <<>> THEN <<>> ELSE InsertSorted(SortList(Tail(sq)), Head(sq))

\* std::list::merge of two sorted lists
RECURSIVE MergeLists(_, _)
MergeLists(a, b) ==
  IF a = <<>> THEN b
  ELSE IF b = <<>> THEN a
  ELSE IF Head(b) < Head(a) THEN <<Head(b)>> \o MergeLists(a, Tail(b))
  ELSE <<Head(a)>> \o MergeLists(Tail(a), b)

(***************************************************************************)
(* Conversions between int and Real                                        *)
(***************************************************************************)
\* static_cast<Real>(int)
IntToReal(i) == i * RealScale

\* static_cast<int>(Real): truncation toward zero
RealToInt(r) == IF r >= 0 THEN r \div RealScale ELSE -((-r) \div RealScale)

(***************************************************************************)
(* Swarm: attributes (swarm.cpp:102-175)                                   *)
(***************************************************************************)
\* Add_<T>(label): a new ParticleVariable<T> of nmax_pool_ elements, appended
\* to the vector of its type and entered in the map of its type
Add_(s, label, type) ==
  LET var == [label |-> label, data |-> Arr(s.nmax_pool, 0)]
  IN IF type = "Integer"
     THEN [s EXCEPT !.intVector = Append(@, var), !.intMap = @ \cup {label}]
     ELSE [s EXCEPT !.realVector = Append(@, var), !.realMap = @ \cup {label}]

\* Swarm::Add with the test of line 105 on the int map alone
Add_IntMapOnly(s, label, type) ==
  IF label \in s.intMap
  THEN [s EXCEPT !.err = "already enrolled during Add()"]
  ELSE IF type = "Integer" THEN Add_(s, label, "Integer")
  ELSE IF type = "Real" THEN Add_(s, label, "Real")
  ELSE [s EXCEPT !.err = "does not have a valid type during Add()"]

\* Swarm::Add(label, metadata)
Add(s, label, type) ==
  IF label \in s.intMap \/ label \in s.realMap
  THEN [s EXCEPT !.err = "already enrolled during Add()"]
  ELSE IF type = "Integer" THEN Add_(s, label, "Integer")
  ELSE IF type = "Real" THEN Add_(s, label, "Real")
  ELSE [s EXCEPT !.err = "does not have a valid type during Add()"]

(***************************************************************************)
(* Swarm::Remove (swarm.cpp:126-175)                                       *)
(***************************************************************************)
\* the place of the first variable of vec with the label, 0 when there is none
IndexOf(vec, label) ==
  LET found == {i \in DOMAIN vec : vec[i].label = label}
  IN IF found = {} THEN 0 ELSE CHOOSE i \in found : \A k \in found : i <= k

\* the variable at idx is reset, the last one moved into its place and the
\* last entry popped (lines 146-150 and 166-168)
RemoveColumn(vec, idx) ==
  IF Len(vec) > 1 THEN SubSeq([vec EXCEPT ![idx] = vec[Len(vec)]], 1, Len(vec) - 1)
  ELSE <<>>

\* found is still true after an int variable has been found and removed, so
\* lines 165-170 run with its idx on realVector_ as well.  An idx behind the
\* end of realVector_ is undefined behaviour, oob the outcome: the program
\* faults, or the writes behind the end pass and pop_back drops the last
\* entry.
Remove(s, label, oob) ==
  LET i == IndexOf(s.intVector, label)
      j == IndexOf(s.realVector, label)
  IN IF i > 0
     THEN LET s1 == [s EXCEPT !.intVector = RemoveColumn(@, i),
                              !.intMap = @ \ {label}]
          IN IF i <= Len(s1.realVector)
             THEN [s1 EXCEPT !.realVector = RemoveColumn(@, i),
                             !.realMap = @ \ {label}]
             ELSE IF oob = "fault" \/ Len(s1.realVector) = 0
             THEN [s1 EXCEPT !.err = "fault"]
             ELSE [s1 EXCEPT !.realVector = SubSeq(@, 1, Len(@) - 1),
                             !.realMap = @ \ {label}]
     ELSE IF j > 0
     THEN [s EXCEPT !.realVector = RemoveColumn(@, j), !.realMap = @ \ {label}]
     ELSE [s EXCEPT !.err = "swarm variable not found in Remove()"]

\* GetParticleDataSize(): the number of Reals one particle takes in a buffer
GetParticleDataSize(s) == Len(s.realVector) + Len(s.intVector)

(***************************************************************************)
(* BoundarySwarm::BoundarySwarm, InitBoundaryData (bvals_swarm.cpp:41-64)  *)
(***************************************************************************)
\* bd_var_ with nbmax channels: every flag waiting, no request pending, the
\* buffers not yet allocated
InitBoundaryData(nbmax) ==
  [ nbmax    |-> nbmax,
    flag     |-> Arr(nbmax, "waiting"),
    req_send |-> Arr(nbmax, "MPI_REQUEST_NULL"),
    req_recv |-> Arr(nbmax, "MPI_REQUEST_NULL"),
    send     |-> Arr(nbmax, <<>>),
    recv     |-> Arr(nbmax, <<>>) ]

BoundarySwarm(nbmax) ==
  [ bd_var_       |-> InitBoundaryData(nbmax),
    send_size     |-> Arr(nbmax, 0),
    recv_size     |-> Arr(nbmax, 0),
    particle_size |-> 0 ]

\* a swarm before AllocateComms
NoBoundarySwarm == BoundarySwarm(0)

(***************************************************************************)
(* Swarm::Swarm (swarm.cpp:55-79)                                          *)
(***************************************************************************)
\* neighborIndices_(4, 4, 4) as Kokkos allocates it: every cell <<k, j, i>> 0
NoNeighborIndices == [c \in (0 .. 3) \X (0 .. 3) \X (0 .. 3) |-> 0]

EmptySwarm(nmax_pool_in) ==
  [ nmax_pool          |-> nmax_pool_in,
    mask               |-> Arr(nmax_pool_in, FALSE),
    marked_for_removal |-> Arr(nmax_pool_in, FALSE),
    blockIndex         |-> Arr(nmax_pool_in, 0),
    neighborIndices    |-> NoNeighborIndices,
    free_indices       |-> [i \in 1 .. nmax_pool_in |-> i - 1],
    num_active         |-> 0,
    max_active_index   |-> 0,
    realVector         |-> <<>>,
    intVector          |-> <<>>,
    realMap            |-> {},
    intMap             |-> {},
    num_particles_to_send      |-> <<>>,
    particle_indices_to_send   |-> <<>>,
    num_particles_sent         |-> 0,
    neighbor_received_particles |-> <<>>,
    total_received_particles   |-> 0,
    vbswarm            |-> NoBoundarySwarm,
    err                |-> "none" ]

Swarm(nmax_pool_in) ==
  Add(Add(Add(EmptySwarm(nmax_pool_in), "x", "Real"), "y", "Real"), "z", "Real")

\* Swarm::AllocateComms: the boundary object of the block is created
AllocateComms(s, nbmax) == [s EXCEPT !.vbswarm = BoundarySwarm(nbmax)]

(***************************************************************************)
(* Swarm::setPoolMax (swarm.cpp:177-239)                                   *)
(***************************************************************************)
\* the new ParticleVariable of nmax_pool elements with the old elements copied
GrowVar(v, nmax_pool) == [v EXCEPT !.data = Resize(@, nmax_pool, 0)]

\* setPoolMax with the check of line 178 weakened to nmax_pool >= nmax_pool_
setPoolMax_AcceptsEqual(s, nmax_pool) ==
  IF ~(nmax_pool >= s.nmax_pool)
  THEN [s EXCEPT !.err = "Must request larger pool size!"]
  ELSE [s EXCEPT
          !.free_indices = @ \o [n \in 1 .. nmax_pool - s.nmax_pool |->
                                   (n - 1) + s.nmax_pool],
          !.mask = Resize(@, nmax_pool, FALSE),
          !.marked_for_removal = Resize(@, nmax_pool, FALSE),
          !.blockIndex = Resize(@, nmax_pool, 0),
          !.intVector = [n \in DOMAIN @ |-> GrowVar(@[n], nmax_pool)],
          !.realVector = [n \in DOMAIN @ |-> GrowVar(@[n], nmax_pool)],
          !.nmax_pool = nmax_pool]

\* setPoolMax without the copies of lines 218-220 and 231-233
setPoolMax_FreshVariables(s, nmax_pool) ==
  IF ~(nmax_pool > s.nmax_pool)
  THEN [s EXCEPT !.err = "Must request larger pool size!"]
  ELSE [s EXCEPT
          !.free_indices = @ \o [n \in 1 .. nmax_pool - s.nmax_pool |->
                                   (n - 1) + s.nmax_pool],
          !.mask = Resize(@, nmax_pool, FALSE),
          !.marked_for_removal = Resize(@, nmax_pool, FALSE),
          !.blockIndex = Resize(@, nmax_pool, 0),
          !.intVector = [n \in DOMAIN @ |-> [@[n] EXCEPT !.data = Arr(nmax_pool, 0)]],
          !.realVector = [n \in DOMAIN @ |-> [@[n] EXCEPT !.data = Arr(nmax_pool, 0)]],
          !.nmax_pool = nmax_pool]

setPoolMax(s, nmax_pool) ==
  IF ~(nmax_pool > s.nmax_pool)
  THEN [s EXCEPT !.err = "Must request larger pool size!"]
  ELSE [s EXCEPT
          !.free_indices = @ \o [n \in 1 .. nmax_pool - s.nmax_pool |->
                                   (n - 1) + s.nmax_pool],
          !.mask = Resize(@, nmax_pool, FALSE),
          !.marked_for_removal = Resize(@, nmax_pool, FALSE),
          !.blockIndex = Resize(@, nmax_pool, 0),
          !.intVector = [n \in DOMAIN @ |-> GrowVar(@[n], nmax_pool)],
          !.realVector = [n \in DOMAIN @ |-> GrowVar(@[n], nmax_pool)],
          !.nmax_pool = nmax_pool]

\* increasePoolMax(): the pool doubles
increasePoolMax(s) == setPoolMax(s, 2 * s.nmax_pool)

(***************************************************************************)
(* Swarm::AddEmptyParticles (swarm.cpp:241-287)                            *)
(***************************************************************************)
\* the loop of line 248 with <= for <: the pool grows once too often
RECURSIVE GrowPool_OnceMore(_, _)
GrowPool_OnceMore(s, num_to_add) ==
  IF Len(s.free_indices) <= num_to_add /\ s.err = "none"
  THEN GrowPool_OnceMore(setPoolMax(s, 2 * s.nmax_pool), num_to_add)
  ELSE s

\* while (free_indices_.size() < num_to_add) increasePoolMax();
RECURSIVE GrowPool(_, _)
GrowPool(s, num_to_add) ==
  IF Len(s.free_indices) < num_to_add /\ s.err = "none"
  THEN GrowPool(increasePoolMax(s), num_to_add)
  ELSE s

\* the loop body without line 271, blockIndex_h(*free_index) = this_block_
RECURSIVE AddLoop_TagNotSet(_, _, _)
AddLoop_TagNotSet(r, n, num_to_add) ==
  IF n >= num_to_add THEN r
  ELSE LET free_index == Head(r.s.free_indices)
       IN AddLoop_TagNotSet(
                  [ s |-> [r.s EXCEPT
                             !.mask[free_index] = TRUE,
                             !.max_active_index = Max(@, free_index),
                             !.free_indices = Tail(@)],
                    new_mask |-> [r.new_mask EXCEPT ![free_index] = TRUE],
                    new_indices |-> Append(r.new_indices, free_index) ],
                  n + 1, num_to_add)

\* the loop body of lines 268-276 for the n-th new particle
RECURSIVE AddLoop(_, _, _)
AddLoop(r, n, num_to_add) ==
  IF n >= num_to_add THEN r
  ELSE LET free_index == Head(r.s.free_indices)
       IN AddLoop([ s |-> [r.s EXCEPT
                             !.mask[free_index] = TRUE,
                             !.blockIndex[free_index] = this_block_,
                             !.max_active_index = Max(@, free_index),
                             !.free_indices = Tail(@)],
                    new_mask |-> [r.new_mask EXCEPT ![free_index] = TRUE],
                    new_indices |-> Append(r.new_indices, free_index) ],
                  n + 1, num_to_add)

\* AddEmptyParticles without line 280, num_active_ += num_to_add
AddEmptyParticles_NoCount(s, num_to_add) ==
  IF num_to_add <= 0
  THEN [s |-> s, new_mask |-> <<>>, new_indices |-> <<>>]
  ELSE LET g == GrowPool(s, num_to_add)
       IN AddLoop([s |-> g, new_mask |-> Arr(g.nmax_pool, FALSE),
                   new_indices |-> <<>>], 0, num_to_add)

\* returns the swarm after the call, new_indices and the returned new_mask
AddEmptyParticles(s, num_to_add) ==
  IF num_to_add <= 0
  THEN [s |-> s, new_mask |-> <<>>, new_indices |-> <<>>]
  ELSE LET g == GrowPool(s, num_to_add)
           r == AddLoop([s |-> g, new_mask |-> Arr(g.nmax_pool, FALSE),
                         new_indices |-> <<>>], 0, num_to_add)
       IN [r EXCEPT !.s.num_active = @ + num_to_add]

(***************************************************************************)
(* Swarm::RemoveMarkedParticles (swarm.cpp:292-314)                        *)
(***************************************************************************)
\* the loop without line 302, free_indices_.push_front(n)
RECURSIVE RemoveMarkedLoop_NoPush(_, _)
RemoveMarkedLoop_NoPush(s, n) ==
  IF n < 0 THEN s
  ELSE IF s.mask[n] /\ s.marked_for_removal[n]
  THEN RemoveMarkedLoop_NoPush(
         [s EXCEPT !.mask[n] = FALSE,
                   !.num_active = @ - 1,
                   !.max_active_index = IF n = @ THEN @ - 1 ELSE @,
                   !.marked_for_removal[n] = FALSE], n - 1)
  ELSE RemoveMarkedLoop_NoPush(s, n - 1)

RECURSIVE RemoveMarkedLoop(_, _)
RemoveMarkedLoop(s, n) ==
  IF n < 0 THEN s
  ELSE IF s.mask[n] /\ s.marked_for_removal[n]
  THEN RemoveMarkedLoop(
         [s EXCEPT !.mask[n] = FALSE,
                   !.free_indices = <<n>> \o @,
                   !.num_active = @ - 1,
                   !.max_active_index = IF n = @ THEN @ - 1 ELSE @,
                   !.marked_for_removal[n] = FALSE], n - 1)
  ELSE RemoveMarkedLoop(s, n - 1)

RemoveMarkedParticles(s) == RemoveMarkedLoop(s, s.max_active_index)

\* SwarmDeviceContext::MarkParticleForRemoval(n)
MarkParticleForRemoval(s, n) == [s EXCEPT !.marked_for_removal[n] = TRUE]

(***************************************************************************)
(* Swarm::Defrag (swarm.cpp:316-396)                                       *)
(***************************************************************************)
\* while (mask_h(index) == false) index--;  stops below 0 where the read
\* leaves the array
RECURSIVE ScanDown(_, _)
ScanDown(mask_h, index) ==
  IF index < 0 THEN index
  ELSE IF mask_h[index] = FALSE THEN ScanDown(mask_h, index - 1)
  ELSE index

\* The loop of lines 338-353.  d holds free_indices, new_free_indices,
\* from_to_indices, index and err.  A read of mask_h below index 0 is
\* undefined: with oob = "true" the read finds a set byte (the slot is then
\* below num_active_ and the loop breaks), with oob = "fault" the program
\* dies in the read.
RECURSIVE DefragLoop(_, _, _, _, _, _)
DefragLoop(d, mask_h, n, num_to_move, num_active, oob) ==
  IF n >= num_to_move THEN d
  ELSE LET index_to_move_from == ScanDown(mask_h, d.index)
       IN IF index_to_move_from < 0 /\ oob = "fault"
          THEN [d EXCEPT !.err = "read of mask_h below index 0"]
          ELSE IF index_to_move_from < num_active THEN d
          ELSE IF d.free_indices = <<>>
          THEN [d EXCEPT !.err = "front() of an empty free_indices_"]
          ELSE LET index_to_move_to == Head(d.free_indices)
               IN DefragLoop(
                    [d EXCEPT !.index = index_to_move_from - 1,
                              !.free_indices = Tail(@),
                              !.new_free_indices = Append(@, index_to_move_from),
                              !.from_to_indices[index_to_move_from] = index_to_move_to],
                    mask_h, n + 1, num_to_move, num_active, oob)

\* par_for "Swarm::DefragMask" over n = 0 .. max_active_index_
RECURSIVE DefragMask(_, _, _, _)
DefragMask(mask, from_to_indices, n, max_active_index) ==
  IF n > max_active_index THEN mask
  ELSE IF from_to_indices[n] >= 0
  THEN DefragMask([mask EXCEPT ![from_to_indices[n]] = mask[n], ![n] = FALSE],
                  from_to_indices, n + 1, max_active_index)
  ELSE DefragMask(mask, from_to_indices, n + 1, max_active_index)

\* par_for "Swarm::DefragVariables" for one variable
RECURSIVE DefragVariable(_, _, _, _)
DefragVariable(data, from_to_indices, n, max_active_index) ==
  IF n > max_active_index THEN data
  ELSE IF from_to_indices[n] >= 0
  THEN DefragVariable([data EXCEPT ![from_to_indices[n]] = data[n]],
                      from_to_indices, n + 1, max_active_index)
  ELSE DefragVariable(data, from_to_indices, n + 1, max_active_index)

\* Defrag without the copy of the variables
DefragVariables_NoCopy(vec, from_to_indices, max_active_index) == vec

DefragVariables(vec, from_to_indices, max_active_index) ==
  [i \in DOMAIN vec |->
     [vec[i] EXCEPT !.data = DefragVariable(@, from_to_indices, 0, max_active_index)]]

\* Defrag without line 395, max_active_index_ = num_active_ - 1
Defrag_KeepsMax(s, oob) ==
  IF s.num_active = 0 THEN s
  ELSE LET num_free == (s.max_active_index + 1) - s.num_active
           num_to_move == Min(num_free, s.num_active)
           d == DefragLoop([free_indices |-> s.free_indices,
                            new_free_indices |-> <<>>,
                            from_to_indices |-> Arr(s.max_active_index + 1, unset_index_),
                            index |-> s.max_active_index,
                            err |-> "none"],
                           s.mask, 0, num_to_move, s.num_active, oob)
       IN IF d.err # "none" THEN [s EXCEPT !.err = d.err]
          ELSE [s EXCEPT
                  !.free_indices = MergeLists(SortList(d.free_indices),
                                              SortList(d.new_free_indices)),
                  !.mask = DefragMask(@, d.from_to_indices, 0, s.max_active_index),
                  !.realVector = DefragVariables(@, d.from_to_indices, s.max_active_index),
                  !.intVector = DefragVariables(@, d.from_to_indices, s.max_active_index)]

Defrag(s, oob) ==
  IF s.num_active = 0 THEN s
  ELSE LET num_free == (s.max_active_index + 1) - s.num_active
           num_to_move == Min(num_free, s.num_active)
           d == DefragLoop([free_indices |-> s.free_indices,
                            new_free_indices |-> <<>>,
                            from_to_indices |-> Arr(s.max_active_index + 1, unset_index_),
                            index |-> s.max_active_index,
                            err |-> "none"],
                           s.mask, 0, num_to_move, s.num_active, oob)
       IN IF d.err # "none" THEN [s EXCEPT !.err = d.err]
          ELSE [s EXCEPT
                  !.free_indices = MergeLists(SortList(d.free_indices),
                                              SortList(d.new_free_indices)),
                  !.mask = DefragMask(@, d.from_to_indices, 0, s.max_active_index),
                  !.realVector = DefragVariables(@, d.from_to_indices, s.max_active_index),
                  !.intVector = DefragVariables(@, d.from_to_indices, s.max_active_index),
                  !.max_active_index = s.num_active - 1]

(***************************************************************************)
(* Swarm::SetNeighborIndices1D_, 2D_, 3D_ (swarm.cpp:403-639)              *)
(***************************************************************************)
Extent(a) == Cardinality(DOMAIN a)

\* neighborIndices_h(k, j, i) = v for the cells <<k, j, i>> of cells
SetCells(neighborIndices, cells, v) ==
  [c \in DOMAIN neighborIndices |-> IF c \in cells THEN v ELSE neighborIndices[c]]

\* without the loops over the region of this meshblock: no cell is visited
LocalRegion_Empty(kmin, kmax, jmin, jmax, imin, imax) == {}

\* the cells of for (k = kmin; k < kmax), (j = jmin; j < jmax), (i = imin; i < imax)
LocalRegion(kmin, kmax, jmin, jmax, imin, imax) ==
  (kmin .. kmax - 1) \X (jmin .. jmax - 1) \X (imin .. imax - 1)

\* lines 429-436: the cells <<k, j, i>> the neighbour of offset i is written to
NeighborCells1D(i) ==
  IF i = -1 THEN
    {<<0, 0, 0>>}
  ELSE IF i = 0 THEN
    {<<0, 0, 1>>, <<0, 0, 2>>}
  ELSE
    {<<0, 0, 3>>}

\* lines 469-495: the cells <<k, j, i>> the neighbour of offsets i, j is written to
NeighborCells2D(i, j) ==
  IF i = -1 THEN
    IF j = -1 THEN
      {<<0, 0, 0>>}
    ELSE IF j = 0 THEN
      {<<0, 1, 0>>, <<0, 2, 0>>}
    ELSE IF j = 1 THEN
      {<<0, 3, 0>>}
    ELSE
      {}
  ELSE IF i = 0 THEN
    IF j = -1 THEN
      {<<0, 0, 1>>, <<0, 0, 2>>}
    ELSE IF j = 1 THEN
      {<<0, 3, 1>>, <<0, 3, 2>>}
    ELSE
      {}
  ELSE IF i = 1 THEN
    IF j = -1 THEN
      {<<0, 0, 3>>}
    ELSE IF j = 0 THEN
      {<<0, 1, 3>>, <<0, 2, 3>>}
    ELSE IF j = 1 THEN
      {<<0, 3, 3>>}
    ELSE
      {}
  ELSE
    {}

\* lines 529-635: the cells <<k, j, i>> the neighbour of offsets i, j, k is written to
NeighborCells3D(i, j, k) ==
  IF i = -1 THEN
    IF j = -1 THEN
      IF k = -1 THEN
        {<<0, 0, 0>>}
      ELSE IF k = 0 THEN
        {<<1, 0, 0>>, <<2, 0, 0>>}
      ELSE IF k = 1 THEN
        {<<3, 0, 0>>}
      ELSE
        {}
    ELSE IF j = 0 THEN
      IF k = -1 THEN
        {<<0, 1, 0>>, <<0, 2, 0>>}
      ELSE IF k = 0 THEN
        {<<1, 1, 0>>, <<1, 2, 0>>, <<2, 1, 0>>, <<2, 2, 0>>}
      ELSE IF k = 1 THEN
        {<<3, 1, 0>>, <<3, 2, 0>>}
      ELSE
        {}
    ELSE IF j = 1 THEN
      IF k = -1 THEN
        {<<0, 3, 0>>}
      ELSE IF k = 0 THEN
        {<<1, 3, 0>>, <<2, 3, 0>>}
      ELSE IF k = 1 THEN
        {<<3, 3, 0>>}
      ELSE
        {}
    ELSE
      {}
  ELSE IF i = 0 THEN
    IF j = -1 THEN
      IF k = -1 THEN
        {<<0, 0, 1>>, <<0, 0, 2>>}
      ELSE IF k = 0 THEN
        {<<1, 0, 1>>, <<1, 0, 2>>, <<2, 0, 1>>, <<2, 0, 2>>}
      ELSE IF k = 1 THEN
        {<<3, 0, 1>>, <<3, 0, 2>>}
      ELSE
        {}
    ELSE IF j = 0 THEN
      IF k = -1 THEN
        {<<0, 1, 1>>, <<0, 1, 2>>, <<0, 2, 1>>, <<0, 2, 2>>}
      ELSE IF k = 1 THEN
        {<<3, 1, 1>>, <<3, 1, 2>>, <<3, 2, 1>>, <<3, 2, 2>>}
      ELSE
        {}
    ELSE IF j = 1 THEN
      IF k = -1 THEN
        {<<0, 3, 1>>, <<0, 3, 2>>}
      ELSE IF k = 0 THEN
        {<<1, 3, 1>>, <<1, 3, 2>>, <<2, 3, 1>>, <<2, 3, 2>>}
      ELSE IF k = 1 THEN
        {<<3, 3, 1>>, <<3, 3, 2>>}
      ELSE
        {}
    ELSE
      {}
  ELSE IF i = 1 THEN
    IF j = -1 THEN
      IF k = -1 THEN
        {<<0, 0, 3>>}
      ELSE IF k = 0 THEN
        {<<1, 0, 3>>, <<2, 0, 3>>}
      ELSE IF k = 1 THEN
        {<<3, 0, 3>>}
      ELSE
        {}
    ELSE IF j = 0 THEN
      IF k = -1 THEN
        {<<0, 1, 3>>, <<0, 2, 3>>}
      ELSE IF k = 0 THEN
        {<<1, 1, 3>>, <<1, 2, 3>>, <<2, 1, 3>>, <<2, 2, 3>>}
      ELSE IF k = 1 THEN
        {<<3, 1, 3>>, <<3, 2, 3>>}
      ELSE
        {}
    ELSE IF j = 1 THEN
      IF k = -1 THEN
        {<<0, 3, 3>>}
      ELSE IF k = 0 THEN
        {<<1, 3, 3>>, <<2, 3, 3>>}
      ELSE IF k = 1 THEN
        {<<3, 3, 3>>}
      ELSE
        {}
    ELSE
      {}
  ELSE
    {}

\* the loop over the neighbours of SetNeighborIndices<ndim>D_
RECURSIVE NeighborLoop(_, _, _, _)
NeighborLoop(neighborIndices, neighbor, ndim, n) ==
  IF n >= Extent(neighbor) THEN neighborIndices
  ELSE LET nb == neighbor[n]
           cells == IF ndim = 1 THEN NeighborCells1D(nb.ox1)
                    ELSE IF ndim = 2 THEN NeighborCells2D(nb.ox1, nb.ox2)
                    ELSE NeighborCells3D(nb.ox1, nb.ox2, nb.ox3)
       IN NeighborLoop(SetCells(neighborIndices, cells, n), neighbor, ndim, n + 1)

SetNeighborIndices1D_(s, neighbor) ==
  [s EXCEPT !.neighborIndices =
     NeighborLoop(SetCells(@, LocalRegion(0, 4, 0, 4, 1, 3), this_block_),
                  neighbor, 1, 0)]

SetNeighborIndices2D_(s, neighbor) ==
  [s EXCEPT !.neighborIndices =
     NeighborLoop(SetCells(@, LocalRegion(0, 4, 1, 3, 1, 3), this_block_),
                  neighbor, 2, 0)]

SetNeighborIndices3D_(s, neighbor) ==
  [s EXCEPT !.neighborIndices =
     NeighborLoop(SetCells(@, LocalRegion(1, 3, 1, 3, 1, 3), this_block_),
                  neighbor, 3, 0)]

(***************************************************************************)
(* Swarm::SetupPersistentMPI (swarm.cpp:641-669)                           *)
(***************************************************************************)
\* BoundarySwarm::SetupPersistentMPI (bvals_swarm.cpp:66-91): MPI_Request_free
\* leaves MPI_REQUEST_NULL in the requests of the neighbours of other ranks
RECURSIVE BoundarySwarmSetupPersistentMPI(_, _, _, _)
BoundarySwarmSetupPersistentMPI(s, neighbor, my_rank, n) ==
  IF n >= Cardinality(DOMAIN neighbor) THEN s
  ELSE BoundarySwarmSetupPersistentMPI(
         IF neighbor[n].rank # my_rank
         THEN [s EXCEPT !.vbswarm.bd_var_.req_send[neighbor[n].bufid] = "MPI_REQUEST_NULL"]
         ELSE s, neighbor, my_rank, n + 1)

\* lines 643-668 without the loop of lines 649-652
SetupPersistentMPI_AnyBoundary(s, mesh_bcs, ndim, neighbor) ==
  IF ndim \notin {1, 2, 3}
  THEN [s EXCEPT !.err = "ndim must be 1, 2, or 3 for particles!"]
  ELSE LET r == IF ndim = 1 THEN SetNeighborIndices1D_(s, neighbor)
                ELSE IF ndim = 2 THEN SetNeighborIndices2D_(s, neighbor)
                ELSE SetNeighborIndices3D_(s, neighbor)
       IN [r EXCEPT !.num_particles_to_send = Arr(Extent(neighbor), 0),
                    !.neighbor_received_particles = Arr(s.vbswarm.bd_var_.nbmax, 0)]

\* lines 643-668.  mesh_bcs: the 2 * ndim boundary flags of the mesh;
\* neighbor: pbval->neighbor, the nneighbor neighbours of the block
SetupPersistentMPI(s, mesh_bcs, ndim, neighbor) ==
  IF \E n \in 1 .. 2 * ndim : mesh_bcs[n] # "periodic"
  THEN [s EXCEPT !.err = "Only periodic boundaries supported right now!"]
  ELSE IF ndim \notin {1, 2, 3}
  THEN [s EXCEPT !.err = "ndim must be 1, 2, or 3 for particles!"]
  ELSE LET r == IF ndim = 1 THEN SetNeighborIndices1D_(s, neighbor)
                ELSE IF ndim = 2 THEN SetNeighborIndices2D_(s, neighbor)
                ELSE SetNeighborIndices3D_(s, neighbor)
       IN [r EXCEPT !.num_particles_to_send = Arr(Extent(neighbor), 0),
                    !.neighbor_received_particles = Arr(s.vbswarm.bd_var_.nbmax, 0)]

(***************************************************************************)
(* Swarm::CountParticlesToSend_ (swarm.cpp:671-733)                        *)
(***************************************************************************)
\* lines 689-699: the particles to send to each neighbour, and the largest count
RECURSIVE CountLoop(_, _, _)
CountLoop(c, s, n) ==
  IF n > s.max_active_index THEN c
  ELSE IF s.mask[n] /\ s.blockIndex[n] >= 0
  THEN LET m == s.blockIndex[n]
           num == c.num_particles_to_send[m] + 1
       IN CountLoop([num_particles_to_send |-> [c.num_particles_to_send EXCEPT ![m] = num],
                     max_indices_size |-> Max(c.max_indices_size, num)], s, n + 1)
  ELSE CountLoop(c, s, n + 1)

\* lines 709-716: the table of the slots to send, one row per neighbour
RECURSIVE IndexLoop(_, _, _)
IndexLoop(c, s, n) ==
  IF n > s.max_active_index THEN c
  ELSE IF s.mask[n] /\ s.blockIndex[n] >= 0
  THEN LET m == s.blockIndex[n]
       IN IndexLoop([particle_indices_to_send |->
                       [c.particle_indices_to_send EXCEPT ![m][c.counter[m]] = n],
                     counter |-> [c.counter EXCEPT ![m] = @ + 1]], s, n + 1)
  ELSE IndexLoop(c, s, n + 1)

\* lines 721-730: the send buffer of neighbour n is replaced when too small
RECURSIVE SizeSendBuffers(_, _, _)
SizeSendBuffers(s, n, particle_size) ==
  IF n >= s.vbswarm.bd_var_.nbmax THEN s
  ELSE LET size == s.num_particles_to_send[n] * particle_size
       IN SizeSendBuffers(
            [s EXCEPT !.vbswarm.bd_var_.send[n] =
                         IF Extent(@) < size THEN Arr(size, 0) ELSE @,
                      !.vbswarm.send_size[n] = size,
                      !.num_particles_sent = @ + s.num_particles_to_send[n]],
            n + 1, particle_size)

\* returns the swarm after the call and max_indices_size
CountParticlesToSend_(s) ==
  LET nbmax == s.vbswarm.bd_var_.nbmax
      particle_size == GetParticleDataSize(s)
      c == CountLoop([num_particles_to_send |-> Arr(nbmax, 0), max_indices_size |-> 0],
                     s, 0)
      max_indices_size == Max(1, c.max_indices_size)
      t == IndexLoop([particle_indices_to_send |-> Arr(nbmax, Arr(max_indices_size, 0)),
                      counter |-> Arr(nbmax, 0)], s, 0)
  IN [ s |-> SizeSendBuffers(
               [s EXCEPT !.vbswarm.particle_size = particle_size,
                         !.num_particles_to_send = c.num_particles_to_send,
                         !.particle_indices_to_send = t.particle_indices_to_send,
                         !.num_particles_sent = 0],
               0, particle_size),
       max_indices_size |-> max_indices_size ]

(***************************************************************************)
(* Swarm::LoadBuffers_ (swarm.cpp:735-776)                                 *)
(***************************************************************************)
\* the packing with the int variables written first
PackParticle_IntsFirst(buf, s, sidx, buffer_index) ==
  LET real_vars_size == Len(s.realVector)
      int_vars_size == Len(s.intVector)
  IN [j \in DOMAIN buf |->
        IF j >= buffer_index /\ j < buffer_index + int_vars_size
        THEN IntToReal(s.intVector[j - buffer_index + 1].data[sidx])
        ELSE IF j >= buffer_index + int_vars_size
                  /\ j < buffer_index + int_vars_size + real_vars_size
        THEN s.realVector[j - buffer_index - int_vars_size + 1].data[sidx]
        ELSE buf[j]]

\* lines 761-770: particle sidx written at buffer_index, the Real variables
\* in the order of realVector_, then the int variables widened to Real
PackParticle(buf, s, sidx, buffer_index) ==
  LET real_vars_size == Len(s.realVector)
      int_vars_size == Len(s.intVector)
  IN [j \in DOMAIN buf |->
        IF j >= buffer_index /\ j < buffer_index + real_vars_size
        THEN s.realVector[j - buffer_index + 1].data[sidx]
        ELSE IF j >= buffer_index + real_vars_size
                  /\ j < buffer_index + real_vars_size + int_vars_size
        THEN IntToReal(s.intVector[j - buffer_index - real_vars_size + 1].data[sidx])
        ELSE buf[j]]

\* the body of "Pack Buffers" with every particle written at the start of the
\* buffer (without line 756, buffer_index = n * particle_size)
PackOne_NoOffset(s, n, m) ==
  IF n < s.num_particles_to_send[m]
  THEN LET sidx == s.particle_indices_to_send[m][n]
       IN [MarkParticleForRemoval(s, sidx) EXCEPT
             !.vbswarm.bd_var_.send[m] = PackParticle(@, s, sidx, 0)]
  ELSE s

\* the body of par_for "Pack Buffers" for index n and neighbour m
PackOne(s, n, m) ==
  IF n < s.num_particles_to_send[m]
  THEN LET sidx == s.particle_indices_to_send[m][n]
           buffer_index == n * GetParticleDataSize(s)
       IN [MarkParticleForRemoval(s, sidx) EXCEPT
             !.vbswarm.bd_var_.send[m] = PackParticle(@, s, sidx, buffer_index)]
  ELSE s

\* par_for over n = 0 .. max_indices_size, inner loop over the nbmax neighbours
RECURSIVE PackLoop(_, _, _, _)
PackLoop(s, n, m, max_indices_size) ==
  IF n > max_indices_size THEN s
  ELSE IF m >= s.vbswarm.bd_var_.nbmax THEN PackLoop(s, n + 1, 0, max_indices_size)
  ELSE PackLoop(PackOne(s, n, m), n, m + 1, max_indices_size)

LoadBuffers_(s, max_indices_size) ==
  RemoveMarkedParticles(PackLoop(s, 0, 0, max_indices_size))

(***************************************************************************)
(* BoundarySwarm::Send (bvals_swarm.cpp:95-138)                            *)
(***************************************************************************)
\* the first size elements of a buffer, as MPI_Isend takes them
Payload(buf, size) == [j \in 1 .. size |-> buf[j - 1]]

\* CreateBvalsMPITag(lid, bufid, swarm_id_) of the receiving block
CreateBvalsMPITag(lid, bufid) == <<lid, bufid>>

\* lines 103-112 without the PARTHENON_REQUIRE of lines 103-104
SendMPI_NoRequire(w, b, n, nb) ==
  LET bs == w.swarm[b].vbswarm
  IN [w EXCEPT
        !.net = Append(@, [src |-> w.mesh.rank[b], dst |-> nb.rank,
                           tag |-> CreateBvalsMPITag(nb.lid, nb.targetid),
                           data |-> Payload(bs.bd_var_.send[n], bs.send_size[n]),
                           visible |-> FALSE]),
        !.swarm[b].vbswarm.bd_var_.req_send[nb.bufid] = "pending"]

\* lines 103-112, the neighbour is on another rank.  w holds swarm, net.
\* The message is in flight: a probe of the receiver finds it once the
\* library has delivered it (visible).  Nothing in the sources completes the
\* request, so req_send stays pending.
SendMPI(w, b, n, nb) ==
  LET bs == w.swarm[b].vbswarm
  IN IF bs.bd_var_.req_send[nb.bufid] # "MPI_REQUEST_NULL"
     THEN [w EXCEPT !.swarm[b].err =
             "Trying to create a new send before previous send completes!"]
     ELSE [w EXCEPT
             !.net = Append(@, [src |-> w.mesh.rank[b], dst |-> nb.rank,
                                tag |-> CreateBvalsMPITag(nb.lid, nb.targetid),
                                data |-> Payload(bs.bd_var_.send[n], bs.send_size[n]),
                                visible |-> FALSE]),
             !.swarm[b].vbswarm.bd_var_.req_send[nb.bufid] = "pending"]

\* lines 115-135 without the assignment of recv_size of line 128
SendLocal_LengthNotRecorded(w, b, n, nb) ==
  LET bs == w.swarm[b].vbswarm
      target == w.swarm[nb.gid].vbswarm
      extent == Extent(bs.bd_var_.send[nb.bufid])
      recv == IF extent > Extent(target.bd_var_.recv[nb.targetid])
              THEN Arr(extent, 0) ELSE target.bd_var_.recv[nb.targetid]
  IN IF bs.send_size[nb.bufid] > 0
     THEN IF Extent(recv) # extent
          THEN [w EXCEPT !.swarm[b].err = "deep_copy of views of different extents"]
          ELSE [w EXCEPT
                  !.swarm[nb.gid].vbswarm.bd_var_.recv[nb.targetid] =
                     bs.bd_var_.send[nb.bufid],
                  !.swarm[nb.gid].vbswarm.bd_var_.flag[nb.targetid] = "arrived"]
     ELSE [w EXCEPT
             !.swarm[nb.gid].vbswarm.recv_size[nb.targetid] = 0,
             !.swarm[nb.gid].vbswarm.bd_var_.flag[nb.targetid] = "completed"]

\* lines 115-135, the neighbour is on this rank.  Kokkos::deep_copy needs a
\* destination of the extent of the source.
SendLocal(w, b, n, nb) ==
  LET bs == w.swarm[b].vbswarm
      target == w.swarm[nb.gid].vbswarm
      extent == Extent(bs.bd_var_.send[nb.bufid])
      recv == IF extent > Extent(target.bd_var_.recv[nb.targetid])
              THEN Arr(extent, 0) ELSE target.bd_var_.recv[nb.targetid]
  IN IF bs.send_size[nb.bufid] > 0
     THEN IF Extent(recv) # extent
          THEN [w EXCEPT !.swarm[b].err = "deep_copy of views of different extents"]
          ELSE [w EXCEPT
                  !.swarm[nb.gid].vbswarm.bd_var_.recv[nb.targetid] =
                     bs.bd_var_.send[nb.bufid],
                  !.swarm[nb.gid].vbswarm.recv_size[nb.targetid] =
                     bs.send_size[nb.bufid],
                  !.swarm[nb.gid].vbswarm.bd_var_.flag[nb.targetid] = "arrived"]
     ELSE [w EXCEPT
             !.swarm[nb.gid].vbswarm.recv_size[nb.targetid] = 0,
             !.swarm[nb.gid].vbswarm.bd_var_.flag[nb.targetid] = "completed"]

RECURSIVE BoundarySwarmSendLoop(_, _, _)
BoundarySwarmSendLoop(w, b, n) ==
  IF n >= Extent(w.mesh.neighbor[b]) \/ w.swarm[b].err # "none" THEN w
  ELSE LET nb == w.mesh.neighbor[b][n]
       IN BoundarySwarmSendLoop(
            IF nb.rank # w.mesh.rank[b] THEN SendMPI(w, b, n, nb)
            ELSE SendLocal(w, b, n, nb), b, n + 1)

BoundarySwarmSend(w, b) == BoundarySwarmSendLoop(w, b, 0)

(***************************************************************************)
(* Swarm::Send (swarm.cpp:778-788)                                         *)
(***************************************************************************)
SwarmSend(w, b) ==
  LET c == CountParticlesToSend_(w.swarm[b])
  IN BoundarySwarmSend([w EXCEPT !.swarm[b] = LoadBuffers_(c.s, c.max_indices_size)], b)

(***************************************************************************)
(* BoundarySwarm::Receive (bvals_swarm.cpp:140-179)                        *)
(***************************************************************************)
\* the place in net of the first message MPI_Iprobe(MPI_ANY_SOURCE, tag) finds
\* for rank dst, 0 when there is none: a message in flight is not found
Iprobe(msgs, dst, tag) ==
  LET found == {j \in DOMAIN msgs :
                  msgs[j].dst = dst /\ msgs[j].tag = tag /\ msgs[j].visible}
  IN IF found = {} THEN 0 ELSE CHOOSE j \in found : \A k \in found : j <= k

RemoveAt(sq, j) == SubSeq(sq, 1, j - 1) \o SubSeq(sq, j + 1, Len(sq))

\* lines 153-174 without the replacement of a receive buffer that is too
\* small (lines 165-167): the buffer keeps its elements
ReceiveMPI_NoGrow(w, b, n, nb) ==
  LET bd == w.swarm[b].vbswarm.bd_var_
      tag == CreateBvalsMPITag(w.mesh.lid[b], nb.bufid)
      j == Iprobe(w.net, w.mesh.rank[b], tag)
  IN IF bd.flag[nb.bufid] = "completed" THEN w
     ELSE IF j = 0
     THEN [w EXCEPT !.swarm[b].vbswarm.bd_var_.flag[nb.bufid] = "waiting"]
     ELSE LET count == Len(w.net[j].data)
          IN [w EXCEPT
                !.swarm[b].vbswarm.bd_var_.flag[nb.bufid] = "arrived",
                !.swarm[b].vbswarm.bd_var_.recv[n] =
                   [k \in DOMAIN @ |->
                      IF k < count THEN w.net[j].data[k + 1] ELSE @[k]],
                !.swarm[b].vbswarm.recv_size[n] = count,
                !.net = RemoveAt(@, j)]

\* lines 153-174 for a neighbour on another rank
ReceiveMPI(w, b, n, nb) ==
  LET bd == w.swarm[b].vbswarm.bd_var_
      tag == CreateBvalsMPITag(w.mesh.lid[b], nb.bufid)
      j == Iprobe(w.net, w.mesh.rank[b], tag)
  IN IF bd.flag[nb.bufid] = "completed" THEN w
     ELSE IF j = 0
     THEN [w EXCEPT !.swarm[b].vbswarm.bd_var_.flag[nb.bufid] = "waiting"]
     ELSE LET count == Len(w.net[j].data)
          IN [w EXCEPT
                !.swarm[b].vbswarm.bd_var_.flag[nb.bufid] = "arrived",
                !.swarm[b].vbswarm.bd_var_.recv[n] =
                   LET buf == IF count > Extent(@) THEN Arr(count, 0) ELSE @
                   IN [k \in DOMAIN buf |->
                         IF k < count THEN w.net[j].data[k + 1] ELSE buf[k]],
                !.swarm[b].vbswarm.recv_size[n] = count,
                !.net = RemoveAt(@, j)]

RECURSIVE BoundarySwarmReceiveLoop(_, _, _)
BoundarySwarmReceiveLoop(w, b, n) ==
  IF n >= Extent(w.mesh.neighbor[b]) THEN w
  ELSE LET nb == w.mesh.neighbor[b][n]
       IN BoundarySwarmReceiveLoop(
            IF nb.rank # w.mesh.rank[b] THEN ReceiveMPI(w, b, n, nb) ELSE w, b, n + 1)

BoundarySwarmReceive(w, b) == BoundarySwarmReceiveLoop(w, b, 0)

(***************************************************************************)
(* Swarm::CountReceivedParticles_ (swarm.cpp:790-804)                      *)
(***************************************************************************)
\* the macro of line 796: a fatal error when the condition does not hold
PARTHENON_DEBUG_REQUIRE(s, condition, message) ==
  IF condition THEN s ELSE [s EXCEPT !.err = message]

\* the loop of lines 794-803 with the test of the status left out
RECURSIVE CountReceivedLoop_AnyStatus(_, _, _)
CountReceivedLoop_AnyStatus(s, neighbor, n) ==
  IF n >= s.vbswarm.bd_var_.nbmax \/ s.err # "none" THEN s
  ELSE LET r == PARTHENON_DEBUG_REQUIRE(
                  s, s.vbswarm.recv_size[n] % s.vbswarm.particle_size = 0,
                  "Receive buffer is not divisible by particle size!")
           received == s.vbswarm.recv_size[n] \div s.vbswarm.particle_size
       IN IF r.err # "none" THEN r
          ELSE CountReceivedLoop_AnyStatus(
                 [s EXCEPT !.neighbor_received_particles[n] = received,
                           !.total_received_particles = @ + received],
                 neighbor, n + 1)

\* the loop of lines 794-803
RECURSIVE CountReceivedLoop(_, _, _)
CountReceivedLoop(s, neighbor, n) ==
  IF n >= s.vbswarm.bd_var_.nbmax \/ s.err # "none" THEN s
  ELSE IF s.vbswarm.bd_var_.flag[neighbor[n].bufid] = "arrived"
  THEN LET r == PARTHENON_DEBUG_REQUIRE(
                  s, s.vbswarm.recv_size[n] % s.vbswarm.particle_size = 0,
                  "Receive buffer is not divisible by particle size!")
           received == s.vbswarm.recv_size[n] \div s.vbswarm.particle_size
       IN IF r.err # "none" THEN r
          ELSE CountReceivedLoop(
                 [s EXCEPT !.neighbor_received_particles[n] = received,
                           !.total_received_particles = @ + received],
                 neighbor, n + 1)
  ELSE CountReceivedLoop([s EXCEPT !.neighbor_received_particles[n] = 0],
                         neighbor, n + 1)

CountReceivedParticles_(s, neighbor) ==
  CountReceivedLoop(
    [s EXCEPT !.total_received_particles = 0], neighbor, 0)

(***************************************************************************)
(* Swarm::UpdateNeighborBufferReceiveIndices_ (swarm.cpp:806-822)          *)
(***************************************************************************)
\* the sequence of <<neighbor_index, buffer_index>>, one per received particle
RECURSIVE UpdateNeighborBufferReceiveIndices_(_, _, _)
UpdateNeighborBufferReceiveIndices_(s, n, m) ==
  IF n >= s.vbswarm.bd_var_.nbmax THEN <<>>
  ELSE IF m >= s.neighbor_received_particles[n]
  THEN UpdateNeighborBufferReceiveIndices_(s, n + 1, 0)
  ELSE <<<<n, m>>>> \o UpdateNeighborBufferReceiveIndices_(s, n, m + 1)

(***************************************************************************)
(* Swarm::UnloadBuffers_ (swarm.cpp:824-892)                               *)
(***************************************************************************)
\* the periodic boundary with the lower correction taken from 0 instead of
\* x_min_global
ApplyPeriodic_FromZero(x, x_min_global, x_max_global) ==
  LET x1 == IF x < x_min_global THEN x_max_global + x ELSE x
  IN IF x1 > x_max_global THEN x_min_global + (x1 - x_max_global) ELSE x1

\* lines 872-889 for one axis: the periodic boundary
ApplyPeriodic(x, x_min_global, x_max_global) ==
  LET x1 == IF x < x_min_global THEN x_max_global - (x_min_global - x) ELSE x
  IN IF x1 > x_max_global THEN x_min_global + (x1 - x_max_global) ELSE x1

\* the value particle bid of the buffer gives Real variable i (from 1)
UnpackReal(var, buf, bid, i, particle_size, mesh_size) ==
  LET v == buf[bid * particle_size + (i - 1)]
  IN IF var.label = "x" THEN ApplyPeriodic(v, mesh_size.x1min, mesh_size.x1max)
     ELSE IF var.label = "y" THEN ApplyPeriodic(v, mesh_size.x2min, mesh_size.x2max)
     ELSE IF var.label = "z" THEN ApplyPeriodic(v, mesh_size.x3min, mesh_size.x3max)
     ELSE v

\* the value particle bid of the buffer gives int variable i (from 1)
UnpackInt(buf, bid, i, particle_size, real_vars_size) ==
  RealToInt(buf[bid * particle_size + real_vars_size + (i - 1)])

\* the body of par_for "Unload buffers" for received particle n (from 1)
UnloadOne(s, new_indices, indices, n, mesh_size) ==
  LET sid == new_indices[n]
      nid == indices[n][1]
      bid == indices[n][2]
      buf == s.vbswarm.bd_var_.recv[nid]
      particle_size == GetParticleDataSize(s)
  IN [s EXCEPT
        !.realVector = [i \in DOMAIN @ |->
           [@[i] EXCEPT !.data[sid] =
              UnpackReal(s.realVector[i], buf, bid, i, particle_size, mesh_size)]],
        !.intVector = [i \in DOMAIN @ |->
           [@[i] EXCEPT !.data[sid] =
              UnpackInt(buf, bid, i, particle_size, Len(s.realVector))]]]

RECURSIVE UnloadLoop(_, _, _, _, _)
UnloadLoop(s, new_indices, indices, n, mesh_size) ==
  IF n > s.total_received_particles THEN s
  ELSE UnloadLoop(UnloadOne(s, new_indices, indices, n, mesh_size),
                  new_indices, indices, n + 1, mesh_size)

\* returns the swarm after the call and the slots the particles were put in
UnloadBuffers_(s0, neighbor, mesh_size) ==
  LET s == CountReceivedParticles_(s0, neighbor)
  IN IF s.err = "none" /\ s.total_received_particles > 0
     THEN LET r == AddEmptyParticles(s, s.total_received_particles)
              indices == UpdateNeighborBufferReceiveIndices_(r.s, 0, 0)
          IN [ s |-> UnloadLoop(r.s, r.new_indices, indices, 1, mesh_size),
               new_indices |-> r.new_indices, indices |-> indices ]
     ELSE [s |-> s, new_indices |-> <<>>, indices |-> <<>>]

(***************************************************************************)
(* Swarm::Receive (swarm.cpp:894-917)                                      *)
(***************************************************************************)
\* the loop of lines 907-914 without the waiting branch
RECURSIVE ReceiveFlags_IgnoresWaiting(_, _, _)
ReceiveFlags_IgnoresWaiting(r, neighbor, n) ==
  IF n >= Extent(neighbor) THEN r
  ELSE LET bufid == neighbor[n].bufid
           flag == r.s.vbswarm.bd_var_.flag[bufid]
       IN IF flag = "arrived"
          THEN ReceiveFlags_IgnoresWaiting(
                 [r EXCEPT !.s.vbswarm.bd_var_.flag[bufid] = "completed"],
                 neighbor, n + 1)
          ELSE ReceiveFlags_IgnoresWaiting(r, neighbor, n + 1)

\* the loop of lines 907-914 without the arrived branch
RECURSIVE ReceiveFlags_KeepsArrived(_, _, _)
ReceiveFlags_KeepsArrived(r, neighbor, n) ==
  IF n >= Extent(neighbor) THEN r
  ELSE LET bufid == neighbor[n].bufid
           flag == r.s.vbswarm.bd_var_.flag[bufid]
       IN IF flag = "waiting"
          THEN ReceiveFlags_KeepsArrived(
                 [r EXCEPT !.all_boundaries_received = FALSE], neighbor, n + 1)
          ELSE ReceiveFlags_KeepsArrived(r, neighbor, n + 1)

\* lines 907-914: arrived channels become completed; a waiting one makes the
\* result false
RECURSIVE ReceiveFlags(_, _, _)
ReceiveFlags(r, neighbor, n) ==
  IF n >= Extent(neighbor) THEN r
  ELSE LET bufid == neighbor[n].bufid
           flag == r.s.vbswarm.bd_var_.flag[bufid]
       IN IF flag = "arrived"
          THEN ReceiveFlags([r EXCEPT !.s.vbswarm.bd_var_.flag[bufid] = "completed"],
                            neighbor, n + 1)
          ELSE IF flag = "waiting"
          THEN ReceiveFlags([r EXCEPT !.all_boundaries_received = FALSE],
                            neighbor, n + 1)
          ELSE ReceiveFlags(r, neighbor, n + 1)

\* returns swarm and net after the call, the result of the call and the
\* slots the received particles were put in
SwarmReceive(w0, b) ==
  LET w == BoundarySwarmReceive(w0, b)
      u == UnloadBuffers_(w.swarm[b], w.mesh.neighbor[b], w.mesh.mesh_size)
      r == IF u.s.err # "none" THEN [s |-> u.s, all_boundaries_received |-> FALSE]
           ELSE ReceiveFlags([s |-> u.s, all_boundaries_received |-> TRUE],
                             w.mesh.neighbor[b], 0)
  IN [ w |-> [w EXCEPT !.swarm[b] = r.s],
       all_boundaries_received |-> r.all_boundaries_received,
       new_indices |-> u.new_indices, indices |-> u.indices ]

(***************************************************************************)
(* The pool specification: one block's pool under every order of calls     *)
(***************************************************************************)
\* the particles the caller writes: attribute label -> value, Reals in
\* fixed point.  Particle(v) differs from Particle(w) in every attribute.
Particle(v) ==
  [l \in {"x", "y", "z", "w", "id"} |->
     CASE l = "x" -> v * RealScale + 25
       [] l = "y" -> v * RealScale + 50
       [] l = "z" -> v * RealScale + 75
       [] l = "w" -> -(v * RealScale) - 50
       [] l = "id" -> -v]

PoolParticles == {Particle(1)}

\* the caller's write of one particle through the variable packs
WriteVar(var, n, p) == [var EXCEPT !.data[n] = p[var.label]]

WriteParticle(s, n, p) ==
  [s EXCEPT !.realVector = [i \in DOMAIN @ |-> WriteVar(@[i], n, p)],
            !.intVector = [i \in DOMAIN @ |-> WriteVar(@[i], n, p)]]

\* the attribute values of slot n: label -> value
Tuple(s, n) ==
  [l \in s.realMap \cup s.intMap |->
     IF l \in s.realMap
     THEN LET i == CHOOSE j \in DOMAIN s.realVector : s.realVector[j].label = l
          IN s.realVector[i].data[n]
     ELSE LET i == CHOOSE j \in DOMAIN s.intVector : s.intVector[j].label = l
          IN s.intVector[i].data[n]]

ActiveSlots(s) == {n \in 0 .. s.nmax_pool - 1 : s.mask[n]}

\* the attribute values WriteParticle(s, n, p) leaves in slot n
ParticleTuple(s, p) == [l \in s.realMap \cup s.intMap |-> p[l]]

NoOp ==
  [op |-> "none", b |-> 0, k |-> 0, new_indices |-> <<>>, new_mask |-> <<>>,
   indices |-> <<>>, label |-> "", type |-> ""]

Op(name, b, k) == [NoOp EXCEPT !.op = name, !.b = b, !.k = k]

\* no block of the program has died in a fatal error
Running == \A b \in DOMAIN swarm : swarm[b].err = "none"

\* the capacity AddEmptyParticles(num_to_add) leaves the pool with
CapacityAfterAdd(s, num_to_add) ==
  IF num_to_add <= 0 \/ Len(s.free_indices) >= num_to_add THEN s.nmax_pool
  ELSE IF 2 * (s.nmax_pool + Len(s.free_indices)) >= 2 * num_to_add + Len(s.free_indices)
       THEN 2 * s.nmax_pool ELSE 4 * s.nmax_pool

\* the pool specification has one block and no neighbours
NoMesh == [neighbor |-> <<>>, rank |-> <<>>, mesh_size |-> <<>>]

comm == <<mesh, net, task, sent>>

InitPool ==
  /\ \E nmax_pool_in \in 1 .. InitPoolMax :
       swarm = [b \in {0} |-> Add(Swarm(nmax_pool_in), "id", "Integer")]
  /\ last = NoOp
  /\ mesh = NoMesh
  /\ net = <<>>
  /\ task = <<>>
  /\ sent = <<>>

PoolAddEmptyParticles ==
  \E b \in DOMAIN swarm : \E num_to_add \in -1 .. MaxAdd :
    /\ Running
    /\ CapacityAfterAdd(swarm[b], num_to_add) <= MaxPool
    /\ LET r == AddEmptyParticles(swarm[b], num_to_add)
       IN /\ swarm' = [swarm EXCEPT ![b] = r.s]
          /\ last' = [Op("AddEmptyParticles", b, num_to_add) EXCEPT
                        !.new_indices = r.new_indices, !.new_mask = r.new_mask]
    /\ UNCHANGED comm

PoolWriteParticle ==
  \E b \in DOMAIN swarm : \E n \in 0 .. swarm[b].nmax_pool - 1 :
    \E p \in PoolParticles :
      /\ Running
      /\ swarm[b].mask[n]
      /\ swarm' = [swarm EXCEPT ![b] = WriteParticle(@, n, p)]
      /\ last' = Op("WriteParticle", b, 0)
      /\ UNCHANGED comm

PoolMarkParticleForRemoval ==
  \E b \in DOMAIN swarm : \E n \in 0 .. swarm[b].nmax_pool - 1 :
    /\ Running
    /\ swarm[b].mask[n]
    /\ ~swarm[b].marked_for_removal[n]
    /\ swarm' = [swarm EXCEPT ![b] = MarkParticleForRemoval(@, n)]
    /\ last' = Op("MarkParticleForRemoval", b, 0)
    /\ UNCHANGED comm

PoolRemoveMarkedParticles ==
  \E b \in DOMAIN swarm :
    /\ Running
    /\ swarm' = [swarm EXCEPT ![b] = RemoveMarkedParticles(@)]
    /\ last' = Op("RemoveMarkedParticles", b, 0)
    /\ UNCHANGED comm

PoolDefrag ==
  \E b \in DOMAIN swarm : \E oob \in {"true", "fault"} :
    /\ Running
    /\ swarm' = [swarm EXCEPT ![b] = Defrag(@, oob)]
    /\ last' = Op("Defrag", b,
                  Cardinality(ActiveSlots(swarm[b]) \ ActiveSlots(swarm'[b])))
    /\ UNCHANGED comm

\* setPoolMax is asked for less than the capacity, for the capacity, and for
\* twice the capacity as increasePoolMax() asks
PoolSetPoolMax ==
  \E b \in DOMAIN swarm :
    \E nmax_pool \in {swarm[b].nmax_pool - 1, swarm[b].nmax_pool,
                      2 * swarm[b].nmax_pool} :
    /\ Running
    /\ nmax_pool <= MaxPool
    /\ swarm' = [swarm EXCEPT ![b] = setPoolMax(@, nmax_pool)]
    /\ last' = Op("setPoolMax", b, nmax_pool)
    /\ UNCHANGED comm

NextPool ==
  \/ PoolAddEmptyParticles
  \/ PoolWriteParticle
  \/ PoolMarkParticleForRemoval
  \/ PoolRemoveMarkedParticles
  \/ PoolDefrag
  \/ PoolSetPoolMax

SpecPool == InitPool /\ [][NextPool]_vars

(***************************************************************************)
(* Properties of the pool                                                  *)
(***************************************************************************)
\* the highest slot index whose active bit is set, -1 when there is none
HighestActive(s) ==
  IF ActiveSlots(s) = {} THEN -1
  ELSE CHOOSE n \in ActiveSlots(s) : \A m \in ActiveSlots(s) : m <= n

\* the multiset of the attribute tuples of the active slots: tuple -> count
ActiveBag(s) ==
  [t \in {Tuple(s, n) : n \in ActiveSlots(s)} |->
     Cardinality({n \in ActiveSlots(s) : Tuple(s, n) = t})]

\* the step just taken was the call `name` on block last'.b and it returned
Returned(name) == last'.op = name /\ swarm'[last'.b].err = "none"

\* C1: in every reachable pool state max_active_index is the highest index
\* whose active bit is set, and -1 when no slot is active.
C1_MaxActiveIndexExact ==
  \A b \in DOMAIN swarm :
    swarm[b].max_active_index = HighestActive(swarm[b])

\* C2: for every k >= 0, AddEmptyParticles(k) increases num_active by exactly
\* k and never decreases max_active_index.
C2_AddIncreasesNumActive ==
  [][(Returned("AddEmptyParticles") /\ last'.k >= 0) =>
       /\ swarm'[last'.b].num_active = swarm[last'.b].num_active + last'.k
       /\ swarm'[last'.b].max_active_index >= swarm[last'.b].max_active_index]_vars

C2_Witness ==
  /\ last.op = "AddEmptyParticles"
  /\ last.k = 2
  /\ swarm[last.b].num_active = 3
  /\ swarm[last.b].nmax_pool = 4

\* C3: right after RemoveMarkedParticles() returns no slot of the pool is both
\* active and marked for removal.
C3_NoActiveMarkedAfterRemove ==
  last.op = "RemoveMarkedParticles" =>
    \A n \in 0 .. swarm[last.b].nmax_pool - 1 :
      ~(swarm[last.b].mask[n] /\ swarm[last.b].marked_for_removal[n])

\* C4: if max_active_index is exact before RemoveMarkedParticles(), it is
\* exact after it: the highest index still active, or -1.
C4_RemoveKeepsMaxExact ==
  [][(Returned("RemoveMarkedParticles")
        /\ swarm[last'.b].max_active_index = HighestActive(swarm[last'.b])) =>
       swarm'[last'.b].max_active_index = HighestActive(swarm'[last'.b])]_vars

\* C5: after Defrag() returns on a pool with num_active > 0,
\* max_active_index = num_active - 1.
C5_DefragMaxActiveIndex ==
  (last.op = "Defrag" /\ swarm[last.b].err = "none" /\ swarm[last.b].num_active > 0) =>
    swarm[last.b].max_active_index = swarm[last.b].num_active - 1

\* a Defrag() that moved last.k particles
C5_Witness ==
  /\ last.op = "Defrag"
  /\ last.k >= 1
  /\ swarm[last.b].err = "none"
  /\ swarm[last.b].num_active >= 2

\* C6: Defrag() leaves the multiset of the attribute tuples of the active
\* slots, and num_active, unchanged.
C6_DefragPreservesParticles ==
  [][Returned("Defrag") =>
       /\ ActiveBag(swarm'[last'.b]) = ActiveBag(swarm[last'.b])
       /\ swarm'[last'.b].num_active = swarm[last'.b].num_active]_vars

\* a Defrag() that moved a written particle and left another one in place
C6_Witness ==
  /\ last.op = "Defrag"
  /\ last.k >= 1
  /\ swarm[last.b].err = "none"
  /\ \E n, m \in ActiveSlots(swarm[last.b]) :
       /\ Tuple(swarm[last.b], n) = ParticleTuple(swarm[last.b], Particle(1))
       /\ Tuple(swarm[last.b], m) # ParticleTuple(swarm[last.b], Particle(1))

\* the capacities reached from nmax_pool by doubling j times
RECURSIVE Doubled(_, _)
Doubled(nmax_pool, j) == IF j = 0 THEN nmax_pool ELSE 2 * Doubled(nmax_pool, j - 1)

\* C7: with fewer than k free entries AddEmptyParticles(k) doubles the
\* capacity until the free list holds k entries, no further, and returns k
\* indices of slots below the new capacity; when every slot of a pool of
\* capacity N is active, AddEmptyParticles(1) returns an index >= N.
C7_AddGrowsByDoubling ==
  [][(Returned("AddEmptyParticles") /\ last'.k > 0
        /\ Len(swarm[last'.b].free_indices) < last'.k) =>
       LET pre == swarm[last'.b]
           post == swarm'[last'.b]
       IN /\ \E j \in 1 .. MaxPool :
               /\ post.nmax_pool = Doubled(pre.nmax_pool, j)
               /\ Len(pre.free_indices) + (post.nmax_pool - pre.nmax_pool)
                    >= last'.k
               /\ Len(pre.free_indices)
                    + (Doubled(pre.nmax_pool, j - 1) - pre.nmax_pool) < last'.k
          /\ Len(last'.new_indices) = last'.k
          /\ \A i \in DOMAIN last'.new_indices :
               /\ last'.new_indices[i] \in 0 .. post.nmax_pool - 1
               /\ post.mask[last'.new_indices[i]]
          /\ (ActiveSlots(pre) = 0 .. pre.nmax_pool - 1 /\ last'.k = 1) =>
               last'.new_indices[1] >= pre.nmax_pool]_vars

\* AddEmptyParticles(1) on a pool of capacity 2 with both slots active
C7_Witness ==
  /\ last.op = "AddEmptyParticles"
  /\ last.k = 1
  /\ last.new_indices = <<2>>
  /\ swarm[last.b].nmax_pool = 4
  /\ swarm[last.b].num_active = 3

\* C8: setPoolMax(nmax_pool) with nmax_pool <= the capacity fails fatally and
\* leaves the pool as it was.
C8_SetPoolMaxRejectsShrink ==
  [][(last'.op = "setPoolMax" /\ last'.k <= swarm[last'.b].nmax_pool) =>
       /\ swarm'[last'.b].err = "Must request larger pool size!"
       /\ [swarm'[last'.b] EXCEPT !.err = "none"] = swarm[last'.b]]_vars

C8_Witness ==
  /\ last.op = "setPoolMax"
  /\ last.k = swarm[last.b].nmax_pool
  /\ swarm[last.b].err # "none"
  /\ swarm[last.b].num_active > 0

(***************************************************************************)
(* The transport specification: two blocks of one rank on a periodic 1D    *)
(* mesh, each the lower and the upper neighbour of the other.  Each block  *)
(* runs exchange cycles: Swarm::Send once, then Swarm::Receive until it    *)
(* returns true.  The particles are created on block 0 before its first    *)
(* cycle; between its cycles a block's particles are given destinations.   *)
(***************************************************************************)
\* the domain is [0, 10] in x1, [-5, 5] in x2 and [1, 11] in x3
Periodic1D ==
  [ ndim      |-> 1,
    mesh_bcs  |-> <<"periodic", "periodic">>,
    mesh_size |-> [x1min |-> 0, x1max |-> 10 * RealScale,
                   x2min |-> -(5 * RealScale), x2max |-> 5 * RealScale,
                   x3min |-> RealScale, x3max |-> 11 * RealScale],
    rank      |-> [b \in 0 .. 1 |-> 0],
    lid       |-> [b \in 0 .. 1 |-> b],
    neighbor  |-> [b \in 0 .. 1 |->
                     [n \in 0 .. 1 |->
                        [gid |-> 1 - b, rank |-> 0, lid |-> 1 - b, bufid |-> n,
                         targetid |-> 1 - n, ox1 |-> 2 * n - 1]]] ]

TotalActive == LET RECURSIVE Sum(_)
                   Sum(B) == IF B = {} THEN 0
                             ELSE LET b == CHOOSE c \in B : TRUE
                                  IN swarm[b].num_active + Sum(B \ {b})
               IN Sum(DOMAIN swarm)

\* the particles block b is about to pack for neighbour n, by ascending slot
RECURSIVE Outgoing(_, _, _)
Outgoing(s, n, slot) ==
  IF slot >= s.nmax_pool THEN <<>>
  ELSE IF s.mask[slot] /\ s.blockIndex[slot] = n
  THEN <<Tuple(s, slot)>> \o Outgoing(s, n, slot + 1)
  ELSE Outgoing(s, n, slot + 1)

\* sent after block b has sent: each channel b sends to holds the particles
\* of its payload
RECURSIVE RecordSent(_, _, _)
RecordSent(g, b, n) ==
  IF n >= Extent(mesh.neighbor[b]) THEN g
  ELSE LET nb == mesh.neighbor[b][n]
       IN RecordSent([g EXCEPT ![nb.gid][nb.targetid] = Outgoing(swarm[b], n, 0)],
                     b, n + 1)

\* the swarm of block b of mesh m after Swarm(nmax_pool_in), AllocateComms and
\* SetupPersistentMPI
SetUpSwarm(m, b, nmax_pool_in) ==
  SetupPersistentMPI(
    BoundarySwarmSetupPersistentMPI(
      AllocateComms(Swarm(nmax_pool_in), Extent(m.neighbor[b])),
      m.neighbor[b], m.rank[b], 0),
    m.mesh_bcs, m.ndim, m.neighbor[b])

\* the position update finds particle n in the region of neighbour m
SetBlockIndex(s, n, m) == [s EXCEPT !.blockIndex[n] = m]

InitTransport ==
  /\ mesh = Periodic1D
  /\ swarm = [b \in DOMAIN mesh.rank |-> SetUpSwarm(mesh, b, 1)]
  /\ net = <<>>
  /\ task = [b \in DOMAIN mesh.rank |-> [pc |-> "Send", cycle |-> 1, ncycles |-> MaxCycles, inround |-> FALSE]]
  /\ sent = [b \in DOMAIN mesh.rank |-> [n \in DOMAIN mesh.neighbor[b] |-> <<>>]]
  /\ last = NoOp

\* a particle is created: AddEmptyParticles(1) and the write of its
\* attributes.  The particle source fills block 0 before its first Send.
CreateParticle ==
  \E b \in {0} :
    /\ Running
    /\ task[b].pc = "Send"
    /\ task[b].cycle = 1
    /\ TotalActive < MaxParticles
    /\ LET r == AddEmptyParticles(swarm[b], 1)
       IN /\ swarm' = [swarm EXCEPT
                         ![b] = WriteParticle(r.s, r.new_indices[1], Particle(1))]
          /\ last' = [Op("CreateParticle", b, 1) EXCEPT !.new_indices = r.new_indices]
    /\ UNCHANGED comm

AssignNeighbor ==
  \E b \in DOMAIN swarm : \E n \in 0 .. swarm[b].nmax_pool - 1 :
    \E m \in DOMAIN mesh.neighbor[b] :
      /\ Running
      /\ task[b].pc = "Send"
      /\ swarm[b].mask[n]
      /\ swarm[b].blockIndex[n] = this_block_
      /\ swarm' = [swarm EXCEPT ![b] = SetBlockIndex(@, n, m)]
      /\ last' = Op("AssignNeighbor", b, 0)
      /\ UNCHANGED comm

World == [swarm |-> swarm, net |-> net, mesh |-> mesh]

\* the blocks of the other ranks
OtherRanks(b) == {c \in DOMAIN mesh.rank : mesh.rank[c] # mesh.rank[b]}

\* The two MPI_Barrier(MPI_COMM_WORLD) of BoundarySwarm::Receive
\* (bvals_swarm.cpp:142,177) make the calls of the ranks rounds: the probes
\* of one call happen after every rank has entered its call of the round and
\* before any rank has left it.  task[b].inround: block b has made its call
\* of the current round.  A rank is past the first barrier when every other
\* rank is in Receive or has made its call; the last call ends the round.
PastBarrier(b) ==
  /\ ~task[b].inround
  /\ \A c \in OtherRanks(b) : task[c].pc = "Receive" \/ task[c].inround

EnterRound(tk, b) ==
  IF OtherRanks(b) = {} THEN tk
  ELSE IF \A c \in OtherRanks(b) : tk[c].inround
  THEN [c \in DOMAIN tk |-> [tk[c] EXCEPT !.inround = FALSE]]
  ELSE [tk EXCEPT ![b].inround = TRUE]

\* Swarm::Send of block b
SendOf(b) ==
    /\ Running
    /\ task[b].pc = "Send"
    /\ ~task[b].inround
    /\ LET w == SwarmSend(World, b)
       IN /\ swarm' = w.swarm
          /\ net' = w.net
    /\ sent' = RecordSent(sent, b, 0)
    /\ task' = [task EXCEPT ![b].pc = "Receive"]
    /\ last' = Op("Send", b, task[b].cycle)
    /\ UNCHANGED mesh

Send == \E b \in DOMAIN swarm : SendOf(b)

\* Swarm::Receive of block b, and the caller's step on its result
ReceiveOf(b) ==
    /\ Running
    /\ task[b].pc = "Receive"
    /\ PastBarrier(b)
    /\ LET r == SwarmReceive(World, b)
       IN /\ swarm' = r.w.swarm
          /\ net' = r.w.net
          /\ task' = EnterRound(
                       IF ~r.all_boundaries_received THEN task
                       ELSE IF task[b].cycle < task[b].ncycles
                       THEN [task EXCEPT ![b].pc = "Send", ![b].cycle = @ + 1]
                       ELSE [task EXCEPT ![b].pc = "Done"], b)
          /\ last' = [Op("Receive", b, IF r.all_boundaries_received THEN 1 ELSE 0)
                        EXCEPT !.new_indices = r.new_indices, !.indices = r.indices]
    /\ UNCHANGED <<mesh, sent>>

Receive == \E b \in DOMAIN swarm : ReceiveOf(b)

NextTransport ==
  \/ CreateParticle
  \/ AssignNeighbor
  \/ Send
  \/ Receive

SpecTransport == InitTransport /\ [][NextTransport]_vars

\* the status of the channel of block b with buffer index bufid
Status(b, bufid) == swarm[b].vbswarm.bd_var_.flag[bufid]

\* block g has not yet sent in its exchange cycle k
NotYetSent(g, k) ==
  task[g].cycle < k \/ (task[g].cycle = k /\ task[g].pc = "Send")

\* C9: a channel's status becomes arrived only from waiting and completed
\* only from arrived or waiting, and a channel whose block has started a
\* cycle, the last payload delivered to it non-empty, is waiting until the
\* neighbour sends in that cycle
C9_ChannelStatusCycle ==
  [][\A b \in DOMAIN swarm : \A n \in DOMAIN mesh.neighbor[b] :
       LET nb == mesh.neighbor[b][n]
           flag == swarm[b].vbswarm.bd_var_.flag[nb.bufid]
           flag_ == swarm'[b].vbswarm.bd_var_.flag[nb.bufid]
       IN /\ (flag_ = "arrived" /\ flag # "arrived") => flag = "waiting"
          /\ (flag_ = "completed" /\ flag # "completed")
               => flag \in {"arrived", "waiting"}
          /\ (NotYetSent(nb.gid, task[b].cycle)' /\ sent'[b][nb.bufid] # <<>>)
               => flag_ = "waiting"]_vars

\* a block has consumed a non-empty payload, finished its first cycle and
\* started its second before the neighbour has sent again
C9_Witness ==
  \E b \in DOMAIN swarm : \E n \in DOMAIN mesh.neighbor[b] :
    /\ task[b].pc = "Send"
    /\ task[b].cycle = 2
    /\ NotYetSent(mesh.neighbor[b][n].gid, 2)
    /\ sent[b][mesh.neighbor[b][n].bufid] # <<>>
    /\ swarm[b].num_active > 0
    /\ Status(b, mesh.neighbor[b][n].bufid) = "completed"

(***************************************************************************)
(* The round-trip specification: block 0 of the periodic mesh holds up to  *)
(* MaxLoad particles of every kind under every registered attribute set,   *)
(* each with a destination, and the two blocks run their exchange cycles.  *)
(***************************************************************************)
\* the attributes registered besides x, y, z
AttributeSets ==
  { <<>>,
    << <<"id", "Integer">> >>,
    << <<"w", "Real">>, <<"id", "Integer">> >> }

RECURSIVE AddAll(_, _)
AddAll(s, attrs) ==
  IF attrs = <<>> THEN s
  ELSE AddAll(Add(s, attrs[1][1], attrs[1][2]), Tail(attrs))

\* a particle inside the domain, one below x1min and above x3max, and one
\* above x1max and below x2min
TransportParticles ==
  { Particle(1),
    [Particle(2) EXCEPT !["x"] = Periodic1D.mesh_size.x1min - 1,
                        !["z"] = Periodic1D.mesh_size.x3max + 1],
    [Particle(3) EXCEPT !["x"] = Periodic1D.mesh_size.x1max + 1,
                        !["y"] = Periodic1D.mesh_size.x2min - 1] }

\* the swarm after the particles of load are created in turn: each is a pair
\* of attribute values and destination
RECURSIVE LoadParticles(_, _)
LoadParticles(s, load) ==
  IF load = <<>> THEN s
  ELSE LET r == AddEmptyParticles(s, 1)
           n == r.new_indices[1]
       IN LoadParticles(
            SetBlockIndex(WriteParticle(r.s, n, load[1][1]), n, load[1][2]),
            Tail(load))

Loads ==
  UNION { [1 .. k -> TransportParticles \X ({this_block_} \cup {0, 1})] :
            k \in 1 .. MaxLoad }

InitRoundTrip ==
  /\ mesh = Periodic1D
  /\ \E attrs \in AttributeSets : \E load \in Loads :
       swarm = [b \in DOMAIN mesh.rank |->
                  LET s == SetupPersistentMPI(
                             AllocateComms(AddAll(Swarm(1), attrs),
                                           Extent(mesh.neighbor[b])),
                             mesh.mesh_bcs, mesh.ndim, mesh.neighbor[b])
                  IN IF b = 0 THEN LoadParticles(s, load) ELSE s]
  /\ net = <<>>
  /\ task = [b \in DOMAIN mesh.rank |-> [pc |-> "Send", cycle |-> 1, ncycles |-> MaxCycles, inround |-> FALSE]]
  /\ sent = [b \in DOMAIN mesh.rank |-> [n \in DOMAIN mesh.neighbor[b] |-> <<>>]]
  /\ last = NoOp

NextRoundTrip ==
  \/ Send
  \/ Receive

SpecRoundTrip == InitRoundTrip /\ [][NextRoundTrip]_vars

\* the value v of coordinate l lies in the domain of mesh m
InDomain(m, l, v) ==
  CASE l = "x" -> m.mesh_size.x1min <= v /\ v <= m.mesh_size.x1max
    [] l = "y" -> m.mesh_size.x2min <= v /\ v <= m.mesh_size.x2max
    [] l = "z" -> m.mesh_size.x3min <= v /\ v <= m.mesh_size.x3max
    [] OTHER -> TRUE

\* the particle of the sender that received particle n (from 1) of the last
\* Receive was packed from
Packed(n) == sent[last'.b][last'.indices[n][1]][last'.indices[n][2] + 1]

\* the attribute values received particle n of the last Receive was given
Unpacked(n) == Tuple(swarm'[last'.b], last'.new_indices[n])

\* C10: every particle a Receive unpacks has the integer attributes it was
\* packed with, and the Real attributes it was packed with except the
\* coordinates that were outside the domain
C10_RoundTripPreservesAttributes ==
  [][Returned("Receive") =>
       \A n \in DOMAIN last'.new_indices :
         \A l \in DOMAIN Unpacked(n) :
           InDomain(mesh, l, Packed(n)[l]) => Unpacked(n)[l] = Packed(n)[l]]_vars

\* a Receive has unpacked, second in its buffer, a particle with an integer
\* and a non-coordinate Real attribute whose x was outside the domain
C10_Witness ==
  /\ last.op = "Receive"
  /\ swarm[last.b].err = "none"
  /\ swarm[last.b].intMap # {}
  /\ "w" \in swarm[last.b].realMap
  /\ \E n \in DOMAIN last.new_indices :
       /\ last.indices[n][2] = 1
       /\ Tuple(swarm[last.b], last.new_indices[n])["id"] = -2
       /\ Tuple(swarm[last.b], last.new_indices[n])["x"] # Particle(2)["x"]
       /\ Tuple(swarm[last.b], last.new_indices[n])["y"] = Particle(2)["y"]

\* the bounds of the domain of mesh m on the axis of coordinate l
AxisMin(m, l) ==
  CASE l = "x" -> m.mesh_size.x1min
    [] l = "y" -> m.mesh_size.x2min
    [] l = "z" -> m.mesh_size.x3min

AxisMax(m, l) ==
  CASE l = "x" -> m.mesh_size.x1max
    [] l = "y" -> m.mesh_size.x2max
    [] l = "z" -> m.mesh_size.x3max

\* C11: every coordinate a Receive unpacks is the packed one plus the extent
\* of its axis when the packed one is below the minimum, minus the extent
\* when it is above the maximum, and the packed one otherwise; a packed
\* coordinate within one extent outside the domain arrives inside it
C11_PeriodicCorrection ==
  [][Returned("Receive") =>
       \A n \in DOMAIN last'.new_indices : \A l \in {"x", "y", "z"} :
         LET lo == AxisMin(mesh, l)
             hi == AxisMax(mesh, l)
             v == Packed(n)[l]
             u == Unpacked(n)[l]
         IN /\ v < lo => u = v + (hi - lo)
            /\ v > hi => u = v - (hi - lo)
            /\ (lo <= v /\ v <= hi) => u = v
            /\ (lo - (hi - lo) <= v /\ v <= hi + (hi - lo)) => (lo <= u /\ u <= hi)]_vars

\* a Receive has unpacked a particle sent with x below x1min and z above
\* x3max, and one sent with x above x1max and y below x2min
C11_Witness ==
  /\ last.op = "Receive"
  /\ swarm[last.b].err = "none"
  /\ \E n, m \in DOMAIN last.new_indices :
       LET p == Tuple(swarm[last.b], last.new_indices[n])
           q == Tuple(swarm[last.b], last.new_indices[m])
       IN /\ p["x"] = mesh.mesh_size.x1max - 1
          /\ p["z"] = mesh.mesh_size.x3min + 1
          /\ p["y"] = Particle(2)["y"]
          /\ q["x"] = mesh.mesh_size.x1min + 1
          /\ q["y"] = mesh.mesh_size.x2max - 1

\* the statuses of the channels of the neighbours of block b in swarm s
ChannelStatuses(s, b) ==
  {s.vbswarm.bd_var_.flag[mesh.neighbor[b][n].bufid] :
     n \in DOMAIN mesh.neighbor[b]}

\* C12: a Receive that returns returns true exactly when every channel of the
\* block's neighbours is then completed, false when one of them is waiting,
\* and leaves none of them arrived
C12_ReceiveReturnsCompletion ==
  [][Returned("Receive") =>
       LET b == last'.b
           after == ChannelStatuses(swarm'[b], b)
       IN /\ (last'.k = 1) <=> (after \subseteq {"completed"})
          /\ ("waiting" \in after) => last'.k = 0
          /\ "arrived" \notin after]_vars

\* a Receive of the first cycle unpacked a particle of the neighbour and
\* returned true with every channel of the block completed
C12_Witness ==
  /\ last.op = "Receive"
  /\ last.k = 1
  /\ last.new_indices # <<>>
  /\ swarm[last.b].err = "none"
  /\ task[last.b].cycle = 2
  /\ ChannelStatuses(swarm[last.b], last.b) = {"completed"}

(***************************************************************************)
(* The exchange specification: the two blocks on one rank or on two ranks, *)
(* under every setting of the two boundary flags of the 1D mesh, from      *)
(* Swarm::SetupPersistentMPI on, for runs of 1 to MaxCycles cycles.  A     *)
(* message sent to another rank is in flight until the library has         *)
(* delivered it.                                                           *)
(***************************************************************************)
\* the two blocks of Periodic1D, one on each of two ranks
Remote1D ==
  [Periodic1D EXCEPT
     !.rank = [b \in 0 .. 1 |-> b],
     !.lid = [b \in 0 .. 1 |-> 0],
     !.neighbor = [b \in 0 .. 1 |->
                     [n \in 0 .. 1 |->
                        [gid |-> 1 - b, rank |-> 1 - b, lid |-> 0, bufid |-> n,
                         targetid |-> 1 - n, ox1 |-> 2 * n - 1]]]]

BoundaryFlags == {"periodic", "outflow"}

ExchangeMeshes ==
  {[m EXCEPT !.mesh_bcs = bcs] :
     m \in {Periodic1D, Remote1D}, bcs \in [1 .. 2 -> BoundaryFlags]}

InitExchange ==
  /\ mesh \in ExchangeMeshes
  /\ swarm = [b \in DOMAIN mesh.rank |->
                AllocateComms(Swarm(1), Extent(mesh.neighbor[b]))]
  /\ net = <<>>
  /\ \E ncycles \in 1 .. MaxCycles :
       task = [b \in DOMAIN mesh.rank |->
                 [pc |-> "Setup", cycle |-> 1, ncycles |-> ncycles, inround |-> FALSE]]
  /\ sent = [b \in DOMAIN mesh.rank |-> [n \in DOMAIN mesh.neighbor[b] |-> <<>>]]
  /\ last = NoOp

\* Swarm::SetupPersistentMPI of block b
Setup ==
  \E b \in DOMAIN swarm :
    /\ Running
    /\ task[b].pc = "Setup"
    /\ swarm' = [swarm EXCEPT ![b] =
                   SetupPersistentMPI(
                     BoundarySwarmSetupPersistentMPI(@, mesh.neighbor[b], mesh.rank[b], 0),
                     mesh.mesh_bcs, mesh.ndim, mesh.neighbor[b])]
    /\ task' = [task EXCEPT ![b].pc = "Send"]
    /\ last' = Op("Setup", b, 0)
    /\ UNCHANGED <<mesh, net, sent>>

\* the library delivers a message in flight: the probes of its receiver find
\* it from now on
Progress ==
  \E j \in DOMAIN net :
    /\ Running
    /\ ~net[j].visible
    /\ net' = [net EXCEPT ![j].visible = TRUE]
    /\ last' = Op("Progress", CHOOSE b \in DOMAIN mesh.rank : mesh.rank[b] = net[j].dst, 0)
    /\ UNCHANGED <<swarm, mesh, task, sent>>

NextExchange ==
  \/ Setup
  \/ CreateParticle
  \/ AssignNeighbor
  \/ Send
  \/ Progress
  \/ Receive

SpecExchange == InitExchange /\ [][NextExchange]_vars

\* the messages of msgs block b has sent on its channel to neighbour nb
Issued(msgs, b, nb) ==
  {j \in DOMAIN msgs :
     /\ msgs[j].src = mesh.rank[b]
     /\ msgs[j].dst = nb.rank
     /\ msgs[j].tag = CreateBvalsMPITag(nb.lid, nb.targetid)}

SendBeforeCompletion == "Trying to create a new send before previous send completes!"

\* C13: a Send of a block that has a neighbour on another rank whose send
\* request is not MPI_REQUEST_NULL ends in the fatal error and puts no
\* message on that channel, and once a block has died in that error no
\* message is sent any more
C13_BusySendIsFatal ==
  [][/\ last'.op = "Send" =>
          LET b == last'.b
          IN \A n \in DOMAIN mesh.neighbor[b] :
               LET nb == mesh.neighbor[b][n]
               IN (/\ nb.rank # mesh.rank[b]
                   /\ swarm[b].vbswarm.bd_var_.req_send[nb.bufid] # "MPI_REQUEST_NULL")
                    => /\ swarm'[b].err = SendBeforeCompletion
                       /\ Cardinality(Issued(net', b, nb)) = Cardinality(Issued(net, b, nb))
                       /\ Len(net') = Len(net)
     /\ (\E b \in DOMAIN swarm : swarm[b].err = SendBeforeCompletion)
          => Len(net') <= Len(net)]_vars

\* a block on a rank of its own has finished its first cycle and died in
\* the Send of its second, its first sends still pending
C13_Witness ==
  /\ last.op = "Send"
  /\ last.k = 2
  /\ mesh.rank[last.b] # mesh.rank[1 - last.b]
  /\ swarm[last.b].err = SendBeforeCompletion
  /\ swarm[last.b].vbswarm.bd_var_.req_send[0] = "pending"

OnlyPeriodic == "Only periodic boundaries supported right now!"

NonPeriodic(m) == \E n \in 1 .. 2 * m.ndim : m.mesh_bcs[n] # "periodic"

\* C16: on a mesh one of whose 2 * ndim boundaries is not periodic, every
\* block that has left setup has died there in the fatal error, and no Send
\* and no Receive has run: no block is past the Send of its first cycle, no
\* message is in flight and every channel is as constructed
C16_NonPeriodicRejectedAtSetup ==
  NonPeriodic(mesh) =>
    /\ \A b \in DOMAIN swarm :
         /\ task[b].pc = "Setup" \/ swarm[b].err = OnlyPeriodic
         /\ task[b].pc \in {"Setup", "Send"}
         /\ task[b].cycle = 1
         /\ \A n \in DOMAIN mesh.neighbor[b] :
              /\ Status(b, n) = "waiting"
              /\ sent[b][n] = <<>>
    /\ net = <<>>
    /\ last.op \in {"none", "Setup"}

\* the setup of a block on a mesh whose upper boundary alone is not periodic
\* has ended in the fatal error
C16_Witness ==
  /\ mesh.mesh_bcs = <<"periodic", "outflow">>
  /\ last.op = "Setup"
  /\ swarm[last.b].err = OnlyPeriodic
  /\ \A b \in DOMAIN swarm : b # last.b => task[b].pc = "Setup"

(***************************************************************************)
(* The attribute specification: the columns of one swarm under every order *)
(* of Add and Remove.  A call that throws ends the run.                    *)
(***************************************************************************)
\* the names handed to Add and Remove: x and y of the constructor and two more
AttrLabels == {"x", "y", "id", "w"}

\* Metadata::Type() of the metadata handed to Add
AttrTypes == {"Integer", "Real", "Boolean"}

InitAttributes ==
  /\ swarm = [b \in {0} |-> Swarm(1)]
  /\ last = NoOp
  /\ mesh = NoMesh
  /\ net = <<>>
  /\ task = <<>>
  /\ sent = <<>>

AttrAdd ==
  \E b \in DOMAIN swarm : \E label \in AttrLabels : \E type \in AttrTypes :
    /\ Running
    /\ swarm' = [swarm EXCEPT ![b] = Add(@, label, type)]
    /\ last' = [Op("Add", b, 0) EXCEPT !.label = label, !.type = type]
    /\ UNCHANGED comm

AttrRemove ==
  \E b \in DOMAIN swarm : \E label \in AttrLabels : \E oob \in {"fault", "pop"} :
    /\ Running
    /\ swarm' = [swarm EXCEPT ![b] = Remove(@, label, oob)]
    /\ last' = [Op("Remove", b, 0) EXCEPT !.label = label]
    /\ UNCHANGED comm

NextAttributes == AttrAdd \/ AttrRemove

SpecAttributes == InitAttributes /\ [][NextAttributes]_vars

\* the names of the columns of a vector of variables
Labels(vec) == {vec[i].label : i \in DOMAIN vec}

\* the registered columns of a swarm: the variables and the names of either type
Columns(s) == <<s.intVector, s.realVector, s.intMap, s.realMap>>

\* C14: Add(label, type) fails exactly when the label is registered under
\* either type or the type is neither Integer nor Real; a failed Add leaves
\* the registered columns as they were, and a successful one appends one
\* column of that label to the variables of that type, enters the label in
\* the names of that type and leaves the other type alone
C14_AddRegistersOneColumn ==
  [][last'.op = "Add" =>
       LET s == swarm[last'.b]
           s_ == swarm'[last'.b]
           label == last'.label
           type == last'.type
           column == [label |-> label, data |-> Arr(s.nmax_pool, 0)]
       IN /\ (s_.err # "none") <=>
               (label \in s.intMap \cup s.realMap \/ type \notin {"Integer", "Real"})
          /\ s_.err # "none" => Columns(s_) = Columns(s)
          /\ (s_.err = "none" /\ type = "Integer") =>
               Columns(s_) = <<Append(s.intVector, column), s.realVector,
                               s.intMap \cup {label}, s.realMap>>
          /\ (s_.err = "none" /\ type = "Real") =>
               Columns(s_) = <<s.intVector, Append(s.realVector, column),
                               s.intMap, s.realMap \cup {label}>>]_vars

\* an Add of a name registered under the other type has failed
C14_Witness ==
  /\ last.op = "Add"
  /\ last.type = "Real"
  /\ last.label \in swarm[last.b].intMap
  /\ swarm[last.b].err = "already enrolled during Add()"
  /\ Len(swarm[last.b].intVector) = 2

\* C15: Remove(label) fails when the label is not registered; when it is, the
\* call removes the column of that label and no other: the columns of either
\* type and the names of either type are those of before without the label,
\* and GetParticleDataSize() is one less
C15_RemoveOnlyThatColumn ==
  [][last'.op = "Remove" =>
       LET s == swarm[last'.b]
           s_ == swarm'[last'.b]
           label == last'.label
       IN IF label \notin s.intMap \cup s.realMap
          THEN s_.err # "none"
          ELSE /\ s_.err = "none"
               /\ Labels(s_.intVector) = Labels(s.intVector) \ {label}
               /\ Labels(s_.realVector) = Labels(s.realVector) \ {label}
               /\ s_.intMap = s.intMap \ {label}
               /\ s_.realMap = s.realMap \ {label}
               /\ GetParticleDataSize(s_) = GetParticleDataSize(s) - 1]_vars

\* the Remove of the one int column has taken the first Real column with it
C15_Witness ==
  /\ last.op = "Remove"
  /\ last.label = "id"
  /\ swarm[last.b].err = "none"
  /\ swarm[last.b].intVector = <<>>
  /\ Labels(swarm[last.b].realVector) = {"y", "z"}
  /\ swarm[last.b].realMap = {"x", "y", "z"}

(***************************************************************************)
(* The ring specification: three blocks of one rank on a periodic 1D mesh, *)
(* each block the upper neighbour of the one below it.  Block 0 starts     *)
(* with up to MaxLoad particles, each staying or bound for a neighbour;    *)
(* the ones that stay are bound for the upper neighbour in a later cycle.  *)
(***************************************************************************)
Ring3 ==
  [Periodic1D EXCEPT
     !.rank = [b \in 0 .. 2 |-> 0],
     !.lid = [b \in 0 .. 2 |-> b],
     !.neighbor = [b \in 0 .. 2 |->
                     [n \in 0 .. 1 |->
                        LET gid == (b + 2 * n + 2) % 3
                        IN [gid |-> gid, rank |-> 0, lid |-> gid, bufid |-> n,
                            targetid |-> 1 - n, ox1 |-> 2 * n - 1]]]]

\* the loads of block 0: each particle with this_block_ or its destination
RingLoads ==
  UNION { [1 .. k -> PoolParticles \X ({this_block_} \cup {0, 1})] :
            k \in 1 .. MaxLoad }

InitRing ==
  /\ mesh = Ring3
  /\ \E load \in RingLoads :
       swarm = [b \in DOMAIN mesh.rank |->
                  IF b = 0 THEN LoadParticles(SetUpSwarm(mesh, b, 1), load)
                  ELSE SetUpSwarm(mesh, b, 1)]
  /\ net = <<>>
  /\ task = [b \in DOMAIN mesh.rank |-> [pc |-> "Send", cycle |-> 1, ncycles |-> MaxCycles, inround |-> FALSE]]
  /\ sent = [b \in DOMAIN mesh.rank |-> [n \in DOMAIN mesh.neighbor[b] |-> <<>>]]
  /\ last = NoOp

\* the particles of block 0 that stayed in the first cycle cross its upper
\* boundary in a later one
RingAdvance ==
  \E b \in {0} :
    /\ Running
    /\ task[b].pc = "Send"
    /\ task[b].cycle > 1
    /\ \E n \in 0 .. swarm[b].nmax_pool - 1 :
         swarm[b].mask[n] /\ swarm[b].blockIndex[n] = this_block_
    /\ swarm' = [swarm EXCEPT ![b].blockIndex =
                   [n \in DOMAIN @ |-> IF swarm[b].mask[n] THEN 1 ELSE @[n]]]
    /\ last' = Op("RingAdvance", b, 0)
    /\ UNCHANGED comm

NextRing ==
  \/ RingAdvance
  \/ Send
  \/ Receive

SpecRing == InitRing /\ [][NextRing]_vars

\* the channels of block g that block b feeds
Fed(b, g) ==
  {mesh.neighbor[b][n].targetid :
     n \in {m \in DOMAIN mesh.neighbor[b] : mesh.neighbor[b][m].gid = g}}

\* swarm s but for the receive buffer, the received length and the status
\* of the channels of fed
OutsideChannels(s, fed) ==
  [s EXCEPT
     !.vbswarm.bd_var_.recv = [k \in DOMAIN @ |-> IF k \in fed THEN <<>> ELSE @[k]],
     !.vbswarm.recv_size = [k \in DOMAIN @ |-> IF k \in fed THEN 0 ELSE @[k]],
     !.vbswarm.bd_var_.flag = [k \in DOMAIN @ |-> IF k \in fed THEN "" ELSE @[k]]]

\* C17: after a Send of block b, for each neighbour on b's rank: with a
\* non-empty payload the target channel's receive buffer is the sender's
\* send buffer, grown exactly when it was smaller than the payload, its
\* received length is the payload length and its status is arrived; with an
\* empty payload its received length is 0, its status is completed and its
\* buffer is as before.  Nothing else of any other block has changed.
C17_LocalSendCopiesToTarget ==
  [][Returned("Send") =>
       LET b == last'.b
           sender == swarm'[b].vbswarm
       IN /\ \A n \in DOMAIN mesh.neighbor[b] :
               LET nb == mesh.neighbor[b][n]
                   size == sender.send_size[nb.bufid]
                   target == swarm[nb.gid].vbswarm
                   target_ == swarm'[nb.gid].vbswarm
                   grown == Extent(target_.bd_var_.recv[nb.targetid])
                              > Extent(target.bd_var_.recv[nb.targetid])
               IN nb.rank = mesh.rank[b] =>
                    /\ target_.recv_size[nb.targetid] = size
                    /\ size > 0 =>
                         /\ target_.bd_var_.recv[nb.targetid] = sender.bd_var_.send[nb.bufid]
                         /\ Extent(target_.bd_var_.recv[nb.targetid]) >= size
                         /\ grown <=> Extent(target.bd_var_.recv[nb.targetid]) < size
                         /\ target_.bd_var_.flag[nb.targetid] = "arrived"
                    /\ size = 0 =>
                         /\ target_.bd_var_.recv[nb.targetid] = target.bd_var_.recv[nb.targetid]
                         /\ target_.bd_var_.flag[nb.targetid] = "completed"
          /\ \A g \in DOMAIN swarm \ {b} :
               OutsideChannels(swarm'[g], Fed(b, g)) = OutsideChannels(swarm[g], Fed(b, g))]_vars

\* the Send of a second cycle has overwritten the buffer of a first payload
\* in one neighbour, which holds the particle of that payload, and has
\* completed the channel of the other
C17_Witness ==
  /\ last.op = "Send"
  /\ last.k = 2
  /\ swarm[last.b].err = "none"
  /\ \E n \in DOMAIN mesh.neighbor[last.b] :
       LET nb == mesh.neighbor[last.b][n]
           other == mesh.neighbor[last.b][1 - n]
       IN /\ swarm[nb.gid].vbswarm.recv_size[nb.targetid] > 0
          /\ Status(nb.gid, nb.targetid) = "arrived"
          /\ swarm[nb.gid].num_active > 0
          /\ swarm[other.gid].vbswarm.recv_size[other.targetid] = 0
          /\ Status(other.gid, other.targetid) = "completed"

(***************************************************************************)
(* The mixed specification: the two blocks of the periodic mesh, each      *)
(* with an attribute set of its own, so that a payload packed with the     *)
(* width of one block is counted with the width of the other.              *)
(***************************************************************************)
InitMixed ==
  /\ mesh = Periodic1D
  /\ \E attrs \in [DOMAIN mesh.rank -> AttributeSets] : \E load \in RingLoads :
       swarm = [b \in DOMAIN mesh.rank |->
                  LET s == SetupPersistentMPI(
                             AllocateComms(AddAll(Swarm(1), attrs[b]),
                                           Extent(mesh.neighbor[b])),
                             mesh.mesh_bcs, mesh.ndim, mesh.neighbor[b])
                  IN IF b = 0 THEN LoadParticles(s, load) ELSE s]
  /\ net = <<>>
  /\ task = [b \in DOMAIN mesh.rank |-> [pc |-> "Send", cycle |-> 1, ncycles |-> MaxCycles, inround |-> FALSE]]
  /\ sent = [b \in DOMAIN mesh.rank |-> [n \in DOMAIN mesh.neighbor[b] |-> <<>>]]
  /\ last = NoOp

NextMixed ==
  \/ Send
  \/ Receive

SpecMixed == InitMixed /\ [][NextMixed]_vars

NotDivisible == "Receive buffer is not divisible by particle size!"

RECURSIVE SumOver(_, _)
SumOver(f, n) == IF n < 0 THEN 0 ELSE f[n] + SumOver(f, n - 1)

\* C18: a Receive of a block whose arrived channels all hold a length that
\* payloadWidth divides leaves, for each channel, the count length /
\* payloadWidth when the channel was arrived and 0 when it was not, and the
\* total the sum of the counts; a Receive that finds an arrived channel with
\* a length payloadWidth does not divide ends in the fatal error
C18_CountReceived ==
  [][last'.op = "Receive" =>
       LET b == last'.b
           s == swarm[b]
           s_ == swarm'[b]
           width == s.vbswarm.particle_size
           nbmax == s.vbswarm.bd_var_.nbmax
           arrived(n) == s.vbswarm.bd_var_.flag[mesh.neighbor[b][n].bufid] = "arrived"
       IN IF \E n \in 0 .. nbmax - 1 : arrived(n) /\ s.vbswarm.recv_size[n] % width # 0
          THEN s_.err = NotDivisible
          ELSE /\ s_.err = "none"
               /\ \A n \in 0 .. nbmax - 1 :
                    s_.neighbor_received_particles[n] =
                      IF arrived(n) THEN s.vbswarm.recv_size[n] \div width ELSE 0
               /\ s_.total_received_particles =
                    SumOver(s_.neighbor_received_particles, nbmax - 1)]_vars

\* a block of width 3 has found the payload of one particle of width 4
C18_Witness ==
  /\ last.op = "Receive"
  /\ swarm[last.b].err = NotDivisible
  /\ GetParticleDataSize(swarm[last.b]) = 3
  /\ \E n \in DOMAIN mesh.neighbor[last.b] :
       /\ Status(last.b, n) = "arrived"
       /\ swarm[last.b].vbswarm.recv_size[n] = 4

\* the values of slot n in the variables of vec, with their labels
SlotValues(vec, n) == [i \in DOMAIN vec |-> <<vec[i].label, vec[i].data[n]>>]

\* C20: setPoolMax(nmax_pool) with nmax_pool above the capacity leaves the
\* active bit, the marked bit and every attribute value of each slot below
\* the old capacity, num_active and max_active_index as they were; the slots
\* from the old capacity to nmax_pool - 1 are inactive and unmarked, and the
\* free list is the old one followed by their indices in ascending order
C20_SetPoolMaxKeepsSlots ==
  [][(last'.op = "setPoolMax" /\ last'.k > swarm[last'.b].nmax_pool) =>
       LET s == swarm[last'.b]
           s_ == swarm'[last'.b]
           oldCap == s.nmax_pool
           newCap == last'.k
       IN /\ s_.err = "none"
          /\ s_.nmax_pool = newCap
          /\ \A n \in 0 .. oldCap - 1 :
               /\ s_.mask[n] = s.mask[n]
               /\ s_.marked_for_removal[n] = s.marked_for_removal[n]
               /\ SlotValues(s_.realVector, n) = SlotValues(s.realVector, n)
               /\ SlotValues(s_.intVector, n) = SlotValues(s.intVector, n)
          /\ s_.num_active = s.num_active
          /\ s_.max_active_index = s.max_active_index
          /\ \A n \in oldCap .. newCap - 1 :
               ~s_.mask[n] /\ ~s_.marked_for_removal[n]
          /\ s_.free_indices =
               s.free_indices \o [j \in 1 .. newCap - oldCap |-> oldCap + j - 1]]_vars

\* a pool of two slots, one holding a written and marked particle and one
\* free, has been grown to four
C20_Witness ==
  /\ last.op = "setPoolMax"
  /\ last.k = 4
  /\ swarm[last.b].err = "none"
  /\ swarm[last.b].nmax_pool = 4
  /\ swarm[last.b].num_active = 1
  /\ swarm[last.b].free_indices = <<0, 2, 3>>
  /\ swarm[last.b].mask[1]
  /\ swarm[last.b].marked_for_removal[1]
  /\ Tuple(swarm[last.b], 1) = ParticleTuple(swarm[last.b], Particle(1))

(***************************************************************************)
(* The exchange specification under fairness: every block that can send    *)
(* does, the caller of a block in its receive step invokes it again, and   *)
(* the library delivers every message in flight.                           *)
(***************************************************************************)
\* the guards of SendOf(b) and ReceiveOf(b)
SendEnabled(b) == Running /\ task[b].pc = "Send" /\ ~task[b].inround

ReceiveEnabled(b) == Running /\ task[b].pc = "Receive" /\ PastBarrier(b)

\* a step of SendOf(b), of ReceiveOf(b): every action records itself in last
SendStep(b) == last'.op = "Send" /\ last'.b = b

ReceiveStep(b) == last'.op = "Receive" /\ last'.b = b

\* Weak fairness of SendOf(b) and of ReceiveOf(b) is written out, with the
\* guard of the action for its ENABLED: a call whose guard holds from some
\* point on is made again and again.
FairExchange ==
  /\ SpecExchange
  /\ WF_vars(Setup)
  /\ WF_vars(Progress)
  /\ \A b \in 0 .. 1 :
       /\ []<>(~SendEnabled(b)) \/ []<><<SendStep(b)>>_vars
       /\ []<>(~ReceiveEnabled(b)) \/ []<><<ReceiveStep(b)>>_vars

\* C19: a block in the receive step of a cycle eventually leaves it, every
\* channel of its neighbours completed
C19_ReceiveEventuallyCompletes ==
  \A b \in 0 .. 1 :
    (task[b].pc = "Receive")
      ~> (task[b].pc # "Receive" /\ ChannelStatuses(swarm[b], b) \subseteq {"completed"})

\* on two ranks, in a run of one cycle, a block has left its receive step
\* while the other, its messages delivered after its probes, is still in it
C19_Witness ==
  \E b \in 0 .. 1 :
    /\ Running
    /\ mesh.rank[b] # mesh.rank[1 - b]
    /\ task[b].ncycles = 1
    /\ task[b].pc = "Receive"
    /\ task[1 - b].pc = "Done"
    /\ \A j \in DOMAIN net : net[j].visible
    /\ net # <<>>


(***************************************************************************)
(* The tagged pool specification: the pool of one block whose particles    *)
(* are given destinations, as the tasks do between the exchange cycles,    *)
(* created, marked and removed.                                            *)
(***************************************************************************)
\* a task gives the particle of slot n the destination 0
PoolAssignNeighbor ==
  \E b \in DOMAIN swarm : \E n \in 0 .. swarm[b].nmax_pool - 1 :
    /\ Running
    /\ swarm[b].mask[n]
    /\ swarm[b].blockIndex[n] = this_block_
    /\ swarm' = [swarm EXCEPT ![b] = SetBlockIndex(@, n, 0)]
    /\ last' = Op("AssignNeighbor", b, 0)
    /\ UNCHANGED comm

NextTagged ==
  \/ PoolAddEmptyParticles
  \/ PoolAssignNeighbor
  \/ PoolMarkParticleForRemoval
  \/ PoolRemoveMarkedParticles

SpecTagged == InitPool /\ [][NextTagged]_vars

\* the set of the entries of a list
Range(list) == {list[i] : i \in DOMAIN list}

\* C21: AddEmptyParticles(k) with k > 0 returns k pairwise distinct indices of
\* slots that were inactive before the call; the active bit is set and the
\* destination is this_block_ on exactly those slots, slots active before keep
\* their bit and their destination, and the returned mask covers the whole
\* (possibly grown) pool and is true at exactly the returned indices.  With
\* k <= 0 the pool is unchanged and both results are empty.
C21_AddEmptyParticlesSlots ==
  [][last'.op = "AddEmptyParticles" =>
       LET pre == swarm[last'.b]
           post == swarm'[last'.b]
           new == Range(last'.new_indices)
       IN IF last'.k > 0
          THEN /\ Len(last'.new_indices) = last'.k
               /\ Cardinality(new) = last'.k
               /\ new \subseteq 0 .. post.nmax_pool - 1
               /\ new \cap ActiveSlots(pre) = {}
               /\ ActiveSlots(post) = ActiveSlots(pre) \cup new
               /\ \A n \in new : post.blockIndex[n] = this_block_
               /\ \A n \in (0 .. pre.nmax_pool - 1) \ new :
                    post.blockIndex[n] = pre.blockIndex[n]
               /\ DOMAIN last'.new_mask = 0 .. post.nmax_pool - 1
               /\ \A n \in 0 .. post.nmax_pool - 1 :
                    last'.new_mask[n] <=> n \in new
          ELSE /\ post = pre
               /\ last'.new_indices = <<>>
               /\ last'.new_mask = <<>>]_vars

\* AddEmptyParticles(2) that grew the pool from 2 to 4 slots, took a slot
\* whose removed particle had the destination 0 and left a particle with the
\* destination 0 in place
C21_Witness ==
  /\ last.op = "AddEmptyParticles"
  /\ last.k = 2
  /\ last.new_indices = <<1, 2>>
  /\ swarm[last.b].nmax_pool = 4
  /\ swarm[last.b].mask[0]
  /\ swarm[last.b].blockIndex[0] = 0
  /\ swarm[last.b].blockIndex[1] = this_block_


(***************************************************************************)
(* The routing specification: one block of a periodic mesh of 1, 2 or 3    *)
(* dimensions that is its own neighbour in every direction.  The block     *)
(* runs Swarm::SetupPersistentMPI, which builds neighborIndices_.          *)
(***************************************************************************)
Dims == {1, 2, 3}

RECURSIVE Pow3(_)
Pow3(ndim) == IF ndim = 0 THEN 1 ELSE 3 * Pow3(ndim - 1)

\* the offset in -1 .. 1 on axis a (1, 2, 3) of the m-th offset triple
OffsetOf(m, a) == ((m \div Pow3(a - 1)) % 3) - 1

\* the number of the non-zero offset triples on the active axes
NumOffsets(ndim) == Pow3(ndim) - 1

\* the p-th non-zero offset triple, p in 0 .. NumOffsets(ndim) - 1
OffsetCode(ndim, p) == IF p < NumOffsets(ndim) \div 2 THEN p ELSE p + 1

\* the neighbour list with one neighbour per non-zero offset triple on the
\* active axes, in the order of the codes turned by r places and, with
\* rev, reversed
SelfNeighbors(ndim, r, rev) ==
  [n \in 0 .. NumOffsets(ndim) - 1 |->
     LET q == (n + r) % NumOffsets(ndim)
         p == IF rev THEN NumOffsets(ndim) - 1 - q ELSE q
         m == OffsetCode(ndim, p)
         \* the place in the list of the neighbour of the opposite offsets
         q2 == IF rev THEN p ELSE NumOffsets(ndim) - 1 - p
         n2 == (q2 + NumOffsets(ndim) - r) % NumOffsets(ndim)
     IN [gid |-> 0, rank |-> 0, lid |-> 0, bufid |-> n, targetid |-> n2,
         ox1 |-> OffsetOf(m, 1),
         ox2 |-> IF ndim >= 2 THEN OffsetOf(m, 2) ELSE 0,
         ox3 |-> IF ndim >= 3 THEN OffsetOf(m, 3) ELSE 0]]

SelfPeriodic(ndim, r, rev) ==
  [ ndim      |-> ndim,
    mesh_bcs  |-> [n \in 1 .. 2 * ndim |-> "periodic"],
    mesh_size |-> Periodic1D.mesh_size,
    rank      |-> [b \in {0} |-> 0],
    lid       |-> [b \in {0} |-> 0],
    neighbor  |-> [b \in {0} |-> SelfNeighbors(ndim, r, rev)] ]

InitRouting ==
  /\ \E ndim \in Dims : \E r \in 0 .. NumOffsets(ndim) - 1 : \E rev \in BOOLEAN :
       mesh = SelfPeriodic(ndim, r, rev)
  /\ swarm = [b \in DOMAIN mesh.rank |->
                AllocateComms(Swarm(1), Extent(mesh.neighbor[b]))]
  /\ net = <<>>
  /\ task = [b \in DOMAIN mesh.rank |->
               [pc |-> "Setup", cycle |-> 1, ncycles |-> 1, inround |-> FALSE]]
  /\ sent = <<>>
  /\ last = NoOp

SpecRouting == InitRouting /\ [][Setup]_vars

\* the offset of the neighbour that owns a bucket of one axis
BucketOffset(bucket) == IF bucket = 0 THEN -1 ELSE IF bucket = 3 THEN 1 ELSE 0

\* the cells <<k, j, i>> on the active axes
ActiveCells(ndim) ==
  {c \in (0 .. 3) \X (0 .. 3) \X (0 .. 3) :
     /\ ndim < 3 => c[1] = 0
     /\ ndim < 2 => c[2] = 0}

\* C22: after the table is built, a cell on the active axes whose buckets on
\* the active axes are all interior (1 or 2) holds this_block_, and every
\* other cell on the active axes holds the index of the neighbour whose
\* offset on each active axis is -1 for bucket 0, 0 for buckets 1 and 2 and
\* +1 for bucket 3.
C22_RoutingTable ==
  \A b \in DOMAIN swarm :
    (task[b].pc # "Setup" /\ swarm[b].err = "none" /\ mesh.ndim \in Dims) =>
      \A c \in ActiveCells(mesh.ndim) :
        LET o1 == BucketOffset(c[3])
            o2 == IF mesh.ndim >= 2 THEN BucketOffset(c[2]) ELSE 0
            o3 == IF mesh.ndim >= 3 THEN BucketOffset(c[1]) ELSE 0
        IN IF o1 = 0 /\ o2 = 0 /\ o3 = 0
           THEN swarm[b].neighborIndices[c] = this_block_
           ELSE \E n \in DOMAIN mesh.neighbor[b] :
                  /\ swarm[b].neighborIndices[c] = n
                  /\ mesh.neighbor[b][n].ox1 = o1
                  /\ mesh.ndim >= 2 => mesh.neighbor[b][n].ox2 = o2
                  /\ mesh.ndim >= 3 => mesh.neighbor[b][n].ox3 = o3

\* the table of a 3D block is built from a list that does not start with the
\* neighbour of the offsets (-1, -1, -1)
C22_Witness ==
  /\ last.op = "Setup"
  /\ mesh.ndim = 3
  /\ Extent(mesh.neighbor[0]) = 26
  /\ swarm[0].err = "none"
  /\ swarm[0].neighborIndices[<<0, 0, 0>>] = 7
  /\ swarm[0].neighborIndices[<<1, 2, 1>>] = this_block_


\* the slots that are both active and marked for removal
ActiveMarked(s) == {n \in ActiveSlots(s) : s.marked_for_removal[n]}

\* C23: RemoveMarkedParticles() decreases num_active by exactly the number of
\* slots that were active and marked before the call, pushes each of these
\* indices onto the front of the free list, and leaves every slot that was
\* active and unmarked active with its attribute values.
C23_RemoveMarkedFrame ==
  [][Returned("RemoveMarkedParticles") =>
       LET pre == swarm[last'.b]
           post == swarm'[last'.b]
           k == Cardinality(ActiveMarked(pre))
       IN /\ post.num_active = pre.num_active - k
          /\ Len(post.free_indices) = Len(pre.free_indices) + k
          /\ Range(SubSeq(post.free_indices, 1, k)) = ActiveMarked(pre)
          /\ SubSeq(post.free_indices, k + 1, Len(post.free_indices))
               = pre.free_indices
          /\ \A n \in ActiveSlots(pre) \ ActiveMarked(pre) :
               /\ post.mask[n]
               /\ Tuple(post, n) = Tuple(pre, n)]_vars

\* RemoveMarkedParticles() has returned and a slot that was active and marked
\* is still active, marked and counted
C23_Witness ==
  /\ last.op = "RemoveMarkedParticles"
  /\ swarm[last.b].err = "none"
  /\ ActiveMarked(swarm[last.b]) # {}
  /\ swarm[last.b].num_active >= 2


\* C24: after Defrag() has returned on a pool with num_active > 0, whatever
\* order the earlier RemoveMarkedParticles() calls left the free list in, the
\* active slots are exactly 0 .. num_active - 1 and every index that was
\* vacated is inactive and in the free list.
C24_DefragCompacts ==
  [][(Returned("Defrag") /\ swarm[last'.b].num_active > 0) =>
       LET pre == swarm[last'.b]
           post == swarm'[last'.b]
       IN /\ ActiveSlots(post) = 0 .. post.num_active - 1
          /\ ActiveSlots(pre) \ ActiveSlots(post) \subseteq Range(post.free_indices)]_vars

\* Defrag() has returned and left an active slot above num_active - 1
C24_Witness ==
  /\ last.op = "Defrag"
  /\ swarm[last.b].err = "none"
  /\ swarm[last.b].num_active > 0
  /\ \E n \in ActiveSlots(swarm[last.b]) : n >= swarm[last.b].num_active


(***************************************************************************)
(* The send phase specification: the only block of a periodic 1D mesh, its *)
(* own lower and upper neighbour.  Before its exchange cycle the tasks of   *)
(* the block create particles, give them the destination 0, mark and       *)
(* remove them and defragment the pool.                                    *)
(***************************************************************************)
InitSendPhase ==
  /\ mesh = SelfPeriodic(1, 0, FALSE)
  /\ \E nmax_pool_in \in 1 .. InitPoolMax :
       swarm = [b \in DOMAIN mesh.rank |-> SetUpSwarm(mesh, b, nmax_pool_in)]
  /\ net = <<>>
  /\ task = [b \in DOMAIN mesh.rank |->
               [pc |-> "Send", cycle |-> 1, ncycles |-> 1, inround |-> FALSE]]
  /\ sent = [b \in DOMAIN mesh.rank |-> [n \in DOMAIN mesh.neighbor[b] |-> <<>>]]
  /\ last = NoOp

\* the tasks of the block run before Swarm::Send
BetweenCycles == \A b \in DOMAIN task : task[b].pc = "Send"

NextSendPhase ==
  \/ BetweenCycles /\ PoolAddEmptyParticles
  \/ BetweenCycles /\ PoolAssignNeighbor
  \/ BetweenCycles /\ PoolMarkParticleForRemoval
  \/ BetweenCycles /\ PoolRemoveMarkedParticles
  \/ BetweenCycles /\ PoolDefrag
  \/ Send
  \/ Receive

SpecSendPhase == InitSendPhase /\ [][NextSendPhase]_vars

\* the active slots of s with the destination m
Tagged(s, m) == {n \in ActiveSlots(s) : s.blockIndex[n] = m}

\* the active slots of s with a neighbour as destination
Leaving(s) == {n \in ActiveSlots(s) : s.blockIndex[n] >= 0}

\* the Real values of the particle in slot n of pre are in the send buffer of
\* neighbour m of post, at the start of one of the count particles
InSendBuffer(pre, post, n, m, count) ==
  \E j \in 0 .. count - 1 :
    \A i \in DOMAIN pre.realVector :
      post.vbswarm.bd_var_.send[m][j * GetParticleDataSize(pre) + i - 1]
        = pre.realVector[i].data[n]

\* C25: after Swarm::Send, from every reachable pool state, no active slot has
\* a neighbour as destination: every slot that was active with a neighbour as
\* destination is inactive and packed into the send buffer of that neighbour,
\* num_active has dropped by the number of these slots, and every slot that
\* was active with the destination this_block_ is active with its attribute
\* values.
C25_SendPhaseEmptiesLeaving ==
  [][Returned("Send") =>
       LET pre == swarm[last'.b]
           post == swarm'[last'.b]
       IN /\ Leaving(post) = {}
          /\ Leaving(pre) \cap ActiveSlots(post) = {}
          /\ \A m \in DOMAIN mesh.neighbor[last'.b] :
               /\ post.vbswarm.send_size[m]
                    = Cardinality(Tagged(pre, m)) * GetParticleDataSize(pre)
               /\ \A n \in Tagged(pre, m) :
                    InSendBuffer(pre, post, n, m, Cardinality(Tagged(pre, m)))
          /\ post.num_active = pre.num_active - Cardinality(Leaving(pre))
          /\ \A n \in Tagged(pre, this_block_) :
               /\ post.mask[n]
               /\ Tuple(post, n) = Tuple(pre, n)]_vars

\* Swarm::Send has returned and an active slot has a neighbour as destination
C25_Witness ==
  /\ last.op = "Send"
  /\ swarm[last.b].err = "none"
  /\ Leaving(swarm[last.b]) # {}


\* C26: Swarm::Send writes the j-th particle going to neighbour m, in the
\* order of the slots, into the send buffer of m at the positions
\* j * payloadWidth .. (j + 1) * payloadWidth - 1: the Real attributes in the
\* order of their registration, then the integer attributes widened to Real,
\* where payloadWidth is the number of Real plus integer attributes; the send
\* length of m is its count times payloadWidth.
C26_SendBufferLayout ==
  [][Returned("Send") =>
       LET pre == swarm[last'.b]
           post == swarm'[last'.b]
           nreal == Len(pre.realVector)
           nint == Len(pre.intVector)
           payloadWidth == nreal + nint
       IN \A m \in DOMAIN mesh.neighbor[last'.b] :
            LET count == post.num_particles_to_send[m]
                buf == post.vbswarm.bd_var_.send[m]
                slot == post.particle_indices_to_send[m]
            IN /\ count = Cardinality(Tagged(pre, m))
               /\ {slot[j] : j \in 0 .. count - 1} = Tagged(pre, m)
               /\ \A j \in 0 .. count - 2 : slot[j] < slot[j + 1]
               /\ post.vbswarm.send_size[m] = count * payloadWidth
               /\ Extent(buf) >= count * payloadWidth
               /\ \A j \in 0 .. count - 1 :
                    /\ \A i \in 1 .. nreal :
                         buf[j * payloadWidth + i - 1]
                           = pre.realVector[i].data[slot[j]]
                    /\ \A i \in 1 .. nint :
                         buf[j * payloadWidth + nreal + i - 1]
                           = IntToReal(pre.intVector[i].data[slot[j]])]_vars

\* a Send of a block with the attributes x, y, z, w and id that packed two
\* different particles for neighbour 1
C26_Witness ==
  /\ last.op = "Send"
  /\ swarm[last.b].err = "none"
  /\ Len(swarm[last.b].realVector) = 4
  /\ Len(swarm[last.b].intVector) = 1
  /\ swarm[last.b].num_particles_to_send[1] = 2
  /\ swarm[last.b].vbswarm.send_size[1] = 10
  /\ swarm[last.b].vbswarm.bd_var_.send[1][4] = IntToReal(-1)
  /\ swarm[last.b].vbswarm.bd_var_.send[1][9] = IntToReal(-3)


\* the channels of block b that the step consumed: not completed before it,
\* completed after it
Consumed(b) ==
  {n \in DOMAIN mesh.neighbor[b] :
     /\ swarm[b].vbswarm.bd_var_.flag[mesh.neighbor[b][n].bufid] # "completed"
     /\ swarm'[b].vbswarm.bd_var_.flag[mesh.neighbor[b][n].bufid] = "completed"}

\* the number of particles in the receive buffer of channel n of swarm s
Incoming(s, n) == s.vbswarm.recv_size[n] \div s.vbswarm.particle_size

\* C27: a Receive reserves exactly one new slot per particle of the channels
\* that had arrived, unpacks every particle of these channels into its own
\* new slot and leaves these channels completed and none arrived; a channel
\* that was completed before the Receive, as in a Receive invoked again in the
\* same cycle, is not unpacked again.
C27_ReceiveUnpacksOnce ==
  [][Returned("Receive") =>
       LET b == last'.b
           pre == swarm[b]
           post == swarm'[b]
           new == Range(last'.new_indices)
           totalIncoming ==
             SumOver([n \in DOMAIN mesh.neighbor[b] |->
                        IF n \in Consumed(b) THEN Incoming(post, n) ELSE 0],
                     Extent(mesh.neighbor[b]) - 1)
       IN /\ Len(last'.new_indices) = totalIncoming
          /\ Cardinality(new) = totalIncoming
          /\ new \cap ActiveSlots(pre) = {}
          /\ ActiveSlots(post) = ActiveSlots(pre) \cup new
          /\ post.num_active = pre.num_active + totalIncoming
          /\ Len(last'.indices) = totalIncoming
          /\ Range(last'.indices) =
               {c \in Consumed(b) \X (0 .. totalIncoming - 1) :
                  c[2] < Incoming(post, c[1])}
          /\ \A n \in Consumed(b) : Incoming(post, n) = Len(sent[b][n])
          /\ \A j \in DOMAIN last'.new_indices :
               \A l \in post.intMap : Unpacked(j)[l] = Packed(j)[l]
          /\ "arrived" \notin ChannelStatuses(post, b)]_vars

\* a Receive invoked again in the same cycle: one channel was completed in an
\* earlier Receive of the cycle that unpacked its two particles, the other
\* channel is still waiting, and nothing was unpacked this time
C27_Witness ==
  /\ last.op = "Receive"
  /\ last.k = 0
  /\ last.new_indices = <<>>
  /\ swarm[last.b].err = "none"
  /\ task[last.b].cycle = 1
  /\ swarm[last.b].num_active = 2
  /\ \E n \in DOMAIN mesh.neighbor[last.b] :
       /\ Status(last.b, n) = "completed"
       /\ Incoming(swarm[last.b], n) = 2
       /\ Status(last.b, 1 - n) = "waiting"


\* the places in net of the messages a probe of block b for the channel of
\* its neighbour nb can find
Present(b, nb) ==
  {j \in DOMAIN net :
     /\ net[j].dst = mesh.rank[b]
     /\ net[j].tag = CreateBvalsMPITag(mesh.lid[b], nb.bufid)
     /\ net[j].visible}

\* block b can make its call of BoundarySwarm::Receive
CanReceive(b) == Running /\ task[b].pc = "Receive" /\ PastBarrier(b)

\* C28: BoundarySwarm::Receive on the channel of a neighbour of another rank:
\* with no message present a waiting channel stays waiting and the receive
\* buffer and the received length are unchanged; with a message present the
\* receive buffer is at least as long as the message, replaced only when it
\* was shorter, holds the message, the received length is the length of the
\* message, the status is arrived and the message is taken from the network.
\* On the channel of a neighbour of the same rank it changes nothing.
C28_RemoteProbe ==
  \A b \in DOMAIN swarm :
    CanReceive(b) =>
      LET w == BoundarySwarmReceive(World, b)
          pre == swarm[b].vbswarm
          post == w.swarm[b].vbswarm
      IN \A n \in DOMAIN mesh.neighbor[b] :
           LET nb == mesh.neighbor[b][n]
           IN IF nb.rank = mesh.rank[b]
              THEN /\ post.bd_var_.flag[nb.bufid] = pre.bd_var_.flag[nb.bufid]
                   /\ post.bd_var_.recv[n] = pre.bd_var_.recv[n]
                   /\ post.recv_size[n] = pre.recv_size[n]
              ELSE IF Present(b, nb) = {}
              THEN /\ pre.bd_var_.flag[nb.bufid] = "waiting" =>
                        post.bd_var_.flag[nb.bufid] = "waiting"
                   /\ post.bd_var_.recv[n] = pre.bd_var_.recv[n]
                   /\ post.recv_size[n] = pre.recv_size[n]
              ELSE LET j == CHOOSE i \in Present(b, nb) :
                               \A k \in Present(b, nb) : i <= k
                       data == net[j].data
                   IN /\ post.bd_var_.flag[nb.bufid] = "arrived"
                      /\ Extent(post.bd_var_.recv[n])
                           = Max(Extent(pre.bd_var_.recv[n]), Len(data))
                      /\ \A k \in 0 .. Len(data) - 1 :
                           post.bd_var_.recv[n][k] = data[k + 1]
                      /\ post.recv_size[n] = Len(data)
                      /\ \A i \in DOMAIN w.net : w.net[i] # net[j]

\* a block about to call Receive with two channels of the other rank: on one
\* a message longer than the receive buffer is present, which the call
\* receives, on the other none, and the call leaves it waiting
C28_Witness ==
  \E b \in DOMAIN swarm :
    /\ CanReceive(b)
    /\ \E n \in DOMAIN mesh.neighbor[b] :
         LET nb == mesh.neighbor[b][n]
             other == mesh.neighbor[b][1 - n]
             post == BoundarySwarmReceive(World, b).swarm[b].vbswarm
         IN /\ nb.rank # mesh.rank[b]
            /\ \E j \in Present(b, nb) :
                 Len(net[j].data) > Extent(swarm[b].vbswarm.bd_var_.recv[n])
            /\ post.bd_var_.flag[nb.bufid] = "arrived"
            /\ post.recv_size[n] > 0
            /\ Present(b, other) = {}
            /\ post.bd_var_.flag[other.bufid] = "waiting"


\* C29: exchange cycles can be repeated over a channel to another rank: after
\* a cycle in which every channel of the block was completed, the Send of the
\* next cycle does not end in the fatal error of a send before the previous
\* one completed, and the block of the other rank eventually receives the
\* message of that cycle and finishes the cycle.
C29_CyclesRepeatOverRemote ==
  /\ [][\A b \in DOMAIN swarm :
          (/\ last'.op = "Send"
           /\ last'.b = b
           /\ last'.k > 1
           /\ OtherRanks(b) # {}
           /\ ChannelStatuses(swarm[b], b) \subseteq {"completed"})
            => swarm'[b].err # SendBeforeCompletion]_vars
  /\ \A b \in 0 .. 1 :
       (OtherRanks(b) # {} /\ task[b].pc = "Send" /\ task[b].cycle > 1)
         ~> (task[1 - b].cycle > 1 /\ task[1 - b].pc = "Done")

\* on two ranks a block whose channels were all completed in its first cycle
\* has died in the Send of its second cycle
C29_Witness ==
  /\ last.op = "Send"
  /\ last.k = 2
  /\ OtherRanks(last.b) # {}
  /\ ChannelStatuses(swarm[last.b], last.b) \subseteq {"completed"}
  /\ swarm[last.b].err = SendBeforeCompletion
  /\ swarm[last.b].num_active = 0


\* C30: in every reachable pool state the free list holds the indices of the
\* inactive slots below the capacity, each exactly once: no index of an
\* active slot, every index of an inactive slot, no index twice.
C30_FreeListIsInactiveSet ==
  \A b \in DOMAIN swarm :
    /\ Range(swarm[b].free_indices)
         = (0 .. swarm[b].nmax_pool - 1) \ ActiveSlots(swarm[b])
    /\ Cardinality(Range(swarm[b].free_indices)) = Len(swarm[b].free_indices)

\* a pool grown from 2 to 4 slots after a removal and a Defrag() that moved a
\* particle: slots 0 and 1 are active, 2 and 3 are free
C30_Witness ==
  /\ last.op = "Defrag"
  /\ last.k >= 1
  /\ swarm[last.b].err = "none"
  /\ swarm[last.b].nmax_pool = 4
  /\ swarm[last.b].num_active = 2
  /\ swarm[last.b].free_indices = <<2, 3>>

(***************************************************************************)
(* The scan of Defrag()                                                    *)
(***************************************************************************)
\* the fatal outcomes of the loop of swarm.cpp:338-353
DefragFaults ==
  {"read of mask_h below index 0", "front() of an empty free_indices_"}

\* C31: in every reachable pool state a call of Defrag() keeps its downward
\* scan within the slots 0 .. max_active_index: it reads no slot below
\* index 0 and takes no index from an empty free list.  (The scan of the
\* model ends for every mask, so that it ends is implied.)
C31_DefragScanInBounds ==
  \A b \in DOMAIN swarm :
    swarm[b].err = "none" => Defrag(swarm[b], "fault").err \notin DefragFaults

\* a Defrag() that died reading mask_h(-1)
C31_Witness ==
  /\ last.op = "Defrag"
  /\ swarm[last.b].err = "read of mask_h below index 0"

(***************************************************************************)
(* The delivery specification: the three blocks of the ring under each     *)
(* assignment of buffer ids to the two neighbour indices.  Block 0 starts  *)
(* with up to MaxLoad particles, no two alike, each staying or bound for a *)
(* neighbour, and every block runs one exchange cycle.                     *)
(***************************************************************************)
\* the buffer id of neighbour n: n itself, or the other one
BufferIds == {[n \in 0 .. 1 |-> n], [n \in 0 .. 1 |-> 1 - n]}

\* the ring with buffer id bufid[n] for neighbour n; the target id is the
\* buffer id the target block has for the neighbour relation back
RingWith(bufid) ==
  [Ring3 EXCEPT
     !.neighbor = [b \in DOMAIN @ |->
                     [n \in DOMAIN @[b] |->
                        [@[b][n] EXCEPT !.bufid = bufid[n],
                                        !.targetid = bufid[1 - n]]]]]

\* the destinations of the particles of block 0
DeliveryLoads ==
  UNION { [1 .. k -> {this_block_} \cup {0, 1}] : k \in 1 .. MaxLoad }

\* sent[b][n] for a neighbour index n holds the particles bound for block b
\* through its channel n; sent[b][Extent(mesh.neighbor[b])] holds the
\* particles block b starts with that stay
InitDelivery ==
  /\ \E bufid \in BufferIds : mesh = RingWith(bufid)
  /\ \E load \in DeliveryLoads :
       swarm = [b \in DOMAIN mesh.rank |->
                  IF b = 0
                  THEN LoadParticles(SetUpSwarm(mesh, b, 1),
                                     [j \in DOMAIN load |-> <<Particle(j), load[j]>>])
                  ELSE SetUpSwarm(mesh, b, 1)]
  /\ net = <<>>
  /\ task = [b \in DOMAIN mesh.rank |->
               [pc |-> "Send", cycle |-> 1, ncycles |-> 1, inround |-> FALSE]]
  /\ sent = [b \in DOMAIN mesh.rank |->
               [n \in 0 .. Extent(mesh.neighbor[b]) |->
                  IF n = Extent(mesh.neighbor[b])
                  THEN Outgoing(swarm[b], this_block_, 0) ELSE <<>>]]
  /\ last = NoOp

NextDelivery ==
  \/ Send
  \/ Receive

SpecDelivery == InitDelivery /\ [][NextDelivery]_vars

\* every block has completed its cycles
AllDone == \A b \in DOMAIN task : task[b].pc = "Done"

\* the multiset of the elements of a sequence: element -> count
SeqBag(sq) ==
  [t \in Range(sq) |-> Cardinality({i \in DOMAIN sq : sq[i] = t})]

\* the particles block g is to hold after the cycle: the ones that stay and
\* the ones bound for it, neighbour index by neighbour index
RECURSIVE Due(_, _)
Due(g, n) ==
  IF n > Extent(mesh.neighbor[g]) THEN <<>> ELSE sent[g][n] \o Due(g, n + 1)

\* C32: after one completed exchange cycle of co-located blocks, every
\* particle that was active in block A with destination tag n is exactly one
\* active particle of the block that is A's neighbour n and of no other
\* block, the particles that stay are where they were, and so the number of
\* active particles over all blocks is unchanged; under every assignment of
\* buffer ids and target ids to the neighbour indices.
C32_ConservationAndDelivery ==
  (AllDone /\ Running) =>
     \A g \in DOMAIN swarm : ActiveBag(swarm[g]) = SeqBag(Due(g, 0))

\* a completed cycle in which a particle was bound for a neighbour whose
\* buffer id is not its neighbour index
C32_Witness ==
  /\ AllDone
  /\ Running
  /\ \E b \in DOMAIN mesh.neighbor : \E n \in DOMAIN mesh.neighbor[b] :
       /\ mesh.neighbor[b][n].bufid # n
       /\ sent[mesh.neighbor[b][n].gid][mesh.neighbor[b][n].targetid] # <<>>

(***************************************************************************)
(* Sends over channels that hold a payload                                 *)
(***************************************************************************)
\* the channel of block g with buffer id k: receive buffer, received length
\* and status
Channel(sw, g, k) ==
  [ recv      |-> sw[g].vbswarm.bd_var_.recv[k],
    recv_size |-> sw[g].vbswarm.recv_size[k],
    flag      |-> sw[g].vbswarm.bd_var_.flag[k] ]

\* the particles of the payloads that have arrived at block g and are not
\* yet unpacked
RECURSIVE Pending(_, _, _)
Pending(sw, g, k) ==
  IF k >= sw[g].vbswarm.bd_var_.nbmax THEN 0
  ELSE (IF sw[g].vbswarm.bd_var_.flag[k] = "arrived"
        THEN sw[g].vbswarm.recv_size[k] \div GetParticleDataSize(sw[g]) ELSE 0)
       + Pending(sw, g, k + 1)

\* the particles the blocks hold: the active ones and the ones that have
\* arrived and are not yet unpacked
RECURSIVE Held(_, _)
Held(sw, B) ==
  IF B = {} THEN 0
  ELSE LET g == CHOOSE c \in B : TRUE
       IN sw[g].num_active + Pending(sw, g, 0) + Held(sw, B \ {g})

\* C33: under every interleaving of co-located blocks that each run, cycle
\* by cycle, Send and then Receive until it returns true, a Send changes
\* neither the receive buffer nor the received length nor the status of a
\* target channel that is arrived, its payload not yet unpacked, and no
\* particle is lost in a Send: the particles the blocks hold, active or
\* arrived, are as many as before.
C33_SendKeepsArrivedPayload ==
  [][Returned("Send") =>
       /\ \A n \in DOMAIN mesh.neighbor[last'.b] :
            LET nb == mesh.neighbor[last'.b][n]
            IN Channel(swarm, nb.gid, nb.targetid).flag = "arrived"
                 => Channel(swarm', nb.gid, nb.targetid)
                      = Channel(swarm, nb.gid, nb.targetid)
       /\ Held(swarm', DOMAIN swarm) = Held(swarm, DOMAIN swarm)]_vars

\* block 0 has made the Send of its second cycle while block 1 is still to
\* make its first Receive: the channel of block 1 holds the payload of block
\* 0's first Send and is completed with length 0
C33_Witness ==
  /\ last.op = "Send"
  /\ last.b = 0
  /\ last.k = 2
  /\ Running
  /\ task[1].pc = "Receive"
  /\ task[1].cycle = 1
  /\ \E k \in DOMAIN swarm[1].vbswarm.bd_var_.recv :
       /\ swarm[1].vbswarm.bd_var_.recv[k] # <<>>
       /\ swarm[1].vbswarm.bd_var_.flag[k] = "completed"
       /\ swarm[1].vbswarm.recv_size[k] = 0
  /\ Held(swarm, DOMAIN swarm) = 0

(***************************************************************************)
(* The result of Receive, cycle by cycle                                   *)
(***************************************************************************)
\* C34: in every cycle, the second and later ones too, a Receive of block b
\* returns true only if every neighbour's block has made its Send of that
\* same cycle and no channel of b is left arrived with a payload not yet
\* unpacked; a completed status left from the cycle before does not count.
C34_ReceiveTrueOnlyAfterSends ==
  [][(Returned("Receive") /\ last'.k = 1) =>
       \A n \in DOMAIN mesh.neighbor[last'.b] :
         LET nb == mesh.neighbor[last'.b][n]
         IN /\ ~NotYetSent(nb.gid, task[last'.b].cycle)
            /\ Channel(swarm', last'.b, nb.bufid).flag # "arrived"]_vars

\* a Receive of the second cycle has returned true while the neighbour is
\* still to make its Send of the second cycle
C34_Witness ==
  /\ last.op = "Receive"
  /\ last.k = 1
  /\ Running
  /\ task[last.b].pc = "Done"
  /\ task[last.b].cycle = 2
  /\ \E n \in DOMAIN mesh.neighbor[last.b] :
       NotYetSent(mesh.neighbor[last.b][n].gid, 2)

====
